---- MODULE Spec2Model ----
(***************************************************************************)
(* Meta Agent Search (src/src/meta-agent-search.ts): the ArchiveManager    *)
(* (archive of agent designs, fitness statistics, persistence) and the     *)
(* MetaAgentSearch engine (runGeneration, evaluateAgent, runSearch).       *)
(*                                                                         *)
(* JavaScript numbers are modelled as exact rationals [n, d] in lowest     *)
(* terms; Math.sqrt is rounded down to a multiple of 1/SqrtScale.          *)
(***************************************************************************)
EXTENDS Integers, Sequences, FiniteSets, TLC

\* ---- bounds of the model ------------------------------------------------

MaxAgents == 6        \* designs the archive may hold (4 baseline + added)
MaxEvals == 6         \* updateFitness calls that reach a stored design
MaxClock == 1         \* readings of Date.now() range over 0..MaxClock
MaxCalls == 2         \* calls made on an engine and its archive
MaxGenerations == 2   \* config.maxGenerations of the modelled engine
MaxOperations == 4    \* calls made on an archive and its successors on one directory
SqrtScale == 100      \* resolution of the modelled Math.sqrt

\* ---- numbers --------------------------------------------------------------

Abs(x) == IF x < 0 THEN -x ELSE x

RECURSIVE GCD(_, _)
GCD(a, b) == IF b = 0 THEN a ELSE GCD(b, a % b)

\* the number n/d, in lowest terms with a positive denominator
Num(n, d) ==
  LET g == GCD(Abs(n), Abs(d))
      s == IF d < 0 THEN -1 ELSE 1
  IN  [n |-> s * (n \div g), d |-> s * (d \div g)]

Int2Num(k) == [n |-> k, d |-> 1]
Plus(a, b) == Num(a.n * b.d + b.n * a.d, a.d * b.d)
Minus(a, b) == Num(a.n * b.d - b.n * a.d, a.d * b.d)
Times(a, b) == Num(a.n * b.n, a.d * b.d)
Over(a, b) == Num(a.n * b.d, a.d * b.n)
Less(a, b) == a.n * b.d < b.n * a.d
LessEq(a, b) == a.n * b.d <= b.n * a.d
MathMax(a, b) == IF Less(a, b) THEN b ELSE a
MathMin(a, b) == IF Less(b, a) THEN b ELSE a

\* largest r with r*r <= k
RECURSIVE Bisect(_, _, _)
Bisect(k, lo, hi) ==
  IF hi - lo <= 1 THEN lo
  ELSE LET mid == (lo + hi) \div 2
       IN  IF mid * mid <= k THEN Bisect(k, mid, hi) ELSE Bisect(k, lo, mid)

\* TLC's integers are 32 bits wide: 46340 is the largest r with r*r below 2^31
ISqrt(k) == Bisect(k, 0, IF k < 46340 THEN k + 1 ELSE 46340)

\* Math.sqrt of a number in [0, 1], rounded down to a multiple of 1/SqrtScale
MathSqrt(a) == Num(ISqrt((a.n * SqrtScale * SqrtScale) \div a.d), SqrtScale)

Zero == Int2Num(0)
One == Int2Num(1)

\* ---- types ----------------------------------------------------------------

\* the generation marker "initial" of a baseline design; the engine's counter
\* is incremented before it tags a design, so it never tags one with 0
initial == 0

Fitness(acc, lo, hi, cnt) ==
  [accuracy |-> acc, confidenceLow |-> lo, confidenceHigh |-> hi, evaluationCount |-> cnt]

EvaluationResult(ok, acc, errs, dur) ==
  [success |-> ok, accuracy |-> acc, errors |-> errs, duration |-> dur]

INITIAL_ARCHIVE ==
  << [name |-> "Chain-of-Thought", thought |-> "step-by-step", code |-> "cot",
      generation |-> initial,
      fitness |-> Fitness(Num(50, 100), Num(40, 100), Num(60, 100), 0)],
     [name |-> "Self-Consistency", thought |-> "majority-vote", code |-> "sc",
      generation |-> initial,
      fitness |-> Fitness(Num(55, 100), Num(45, 100), Num(65, 100), 0)],
     [name |-> "Reflexion", thought |-> "self-critique", code |-> "reflexion",
      generation |-> initial,
      fitness |-> Fitness(Num(58, 100), Num(48, 100), Num(68, 100), 0)],
     [name |-> "Tool-Augmented", thought |-> "external-tools", code |-> "tools",
      generation |-> initial,
      fitness |-> Fitness(Num(52, 100), Num(42, 100), Num(62, 100), 0)] >>

\* an AgentDesign: the candidate's fields, then id, createdAt and enabled
AgentDesign(agent, id, createdAt, enabled) ==
  [name |-> agent.name, thought |-> agent.thought, code |-> agent.code,
   generation |-> agent.generation, fitness |-> agent.fitness,
   id |-> id, createdAt |-> createdAt, enabled |-> enabled]

\* ---- the persisted document -------------------------------------------------

\* The document at archivePath is [kind, agents]: kind "absent" (no file),
\* "garbage" (JSON.parse throws), "no-agents" (parses, no agents key),
\* "agents-not-array" (parses, agents is not an array) or "agents", whose agents
\* are JSON objects: the sequence of key/value pairs of each design.

NoFile == [kind |-> "absent", agents |-> << >>]
Garbage == [kind |-> "garbage", agents |-> << >>]
WithoutAgents == [kind |-> "no-agents", agents |-> << >>]
AgentsNotArray == [kind |-> "agents-not-array", agents |-> << >>]

\* JSON.stringify of a design: its own enumerable keys, in order
stringifyFitness(f) ==
  << << "accuracy", f.accuracy >>, << "confidenceLow", f.confidenceLow >>,
     << "confidenceHigh", f.confidenceHigh >>,
     << "evaluationCount", f.evaluationCount >> >>

stringify(a) ==
  << << "name", a.name >>, << "thought", a.thought >>, << "code", a.code >>,
     << "generation", a.generation >>, << "fitness", stringifyFitness(a.fitness) >>,
     << "id", a.id >>, << "createdAt", a.createdAt >>, << "enabled", a.enabled >> >>

\* the value JSON.parse gives key in the object text
member(text, key) == text[CHOOSE k \in 1..Len(text) : text[k][1] = key][2]

parseFitness(text) ==
  [accuracy |-> member(text, "accuracy"), confidenceLow |-> member(text, "confidenceLow"),
   confidenceHigh |-> member(text, "confidenceHigh"),
   evaluationCount |-> member(text, "evaluationCount")]

parse(text) ==
  [name |-> member(text, "name"), thought |-> member(text, "thought"),
   code |-> member(text, "code"), generation |-> member(text, "generation"),
   fitness |-> parseFitness(member(text, "fitness")), id |-> member(text, "id"),
   createdAt |-> member(text, "createdAt"), enabled |-> member(text, "enabled")]

\* data.agents of a document of kind "agents"
parseAgents(doc) == [k \in 1..Len(doc.agents) |-> parse(doc.agents[k])]

\* JSON.stringify({ agents: this.archive }) written to archivePath
save(arch) == [kind |-> "agents", agents |-> [k \in 1..Len(arch) |-> stringify(arch[k])]]

\* ---- ArchiveManager ---------------------------------------------------------

baselineId(i) == "baseline-" \o ToString(i)

\* INITIAL_ARCHIVE.map((a, i) => ...): the index i is 0-based
initializeWithBaseline(t) ==
  [k \in 1..Len(INITIAL_ARCHIVE) |->
     AgentDesign(INITIAL_ARCHIVE[k], baselineId(k - 1), t, TRUE)]

genId(gen, t) == "gen-" \o ToString(gen) \o "-" \o ToString(t)

\* add with unshift in place of push
addFirst(arch, agent, t) ==
  << AgentDesign(agent, genId(agent.generation, t), t, TRUE) >> \o arch

\* add: the archive after the push
add(arch, agent, t) ==
  Append(arch, AgentDesign(agent, genId(agent.generation, t), t, TRUE))

getAll(arch) == arch

\* getEnabled without its filter
getEnabledAll(arch) == arch

getEnabled(arch) == SelectSeq(arch, LAMBDA a : a.enabled)

\* the comparator of the ranking sort: negative when a goes before b
compare(a, b) == Minus(b.fitness.accuracy, a.fitness.accuracy)

\* an unstable sort: x goes before the elements it ties with
RECURSIVE insertUnstable(_, _)
insertUnstable(sorted, x) ==
  IF sorted = << >> THEN << x >>
  ELSE IF LessEq(compare(x, Head(sorted)), Zero)
       THEN << x >> \o sorted
       ELSE << Head(sorted) >> \o insertUnstable(Tail(sorted), x)

\* Array.prototype.sort with that comparator: stable, so x goes after every
\* element it does not strictly precede
RECURSIVE insert(_, _)
insert(sorted, x) ==
  IF sorted = << >> THEN << x >>
  ELSE IF Less(compare(x, Head(sorted)), Zero)
       THEN << x >> \o sorted
       ELSE << Head(sorted) >> \o insert(Tail(sorted), x)

RECURSIVE sort(_)
sort(s) ==
  IF s = << >> THEN << >>
  ELSE insert(sort(SubSeq(s, 1, Len(s) - 1)), s[Len(s)])

slice(s, n) == SubSeq(s, 1, IF n < Len(s) THEN n ELSE Len(s))

\* getTopPerforming(n): the archive after the call and the array returned;
\* filter builds a new array, which sort then orders in place
topPerformingCall(arch, n) ==
  [archive |-> arch, value |-> slice(sort(getEnabled(arch)), n)]

getTopPerforming(arch, n) == topPerformingCall(arch, n).value

\* archive.find(a => a.id === id): the first index holding id, 0 when absent
find(arch, id) ==
  IF \E i \in 1..Len(arch) : arch[i].id = id
  THEN CHOOSE i \in 1..Len(arch) :
         arch[i].id = id /\ \A j \in 1..(i - 1) : arch[j].id # id
  ELSE 0

\* a running average that gives the earlier mean weight 1
runningAverageUnweighted(accuracy, oldCount, observed) ==
  Over(Plus(accuracy, observed), Int2Num(oldCount + 1))

\* the running average of line 285
runningAverage(accuracy, oldCount, observed) ==
  Over(Plus(Times(accuracy, Int2Num(oldCount)), observed), Int2Num(oldCount + 1))

stdErr(accuracy, newCount) ==
  MathSqrt(Over(Times(accuracy, Minus(One, accuracy)), Int2Num(newCount)))

Z95 == Num(196, 100)

\* the lower bound without Math.max(0, ...)
confidenceLowUnclamped(accuracy, newCount) ==
  Minus(accuracy, Times(Z95, stdErr(accuracy, newCount)))

confidenceLow(accuracy, newCount) ==
  MathMax(Zero, Minus(accuracy, Times(Z95, stdErr(accuracy, newCount))))

confidenceHigh(accuracy, newCount) ==
  MathMin(One, Plus(accuracy, Times(Z95, stdErr(accuracy, newCount))))

MinEvaluations == 5
RetireBelow == Num(3, 10)

\* enabled assigned from the test, which re-enables a recovered design
retireOrRestore(enabled, newCount, accuracy) ==
  ~(newCount >= MinEvaluations /\ Less(accuracy, RetireBelow))

\* retirement only after more than MinEvaluations evaluations
retireLate(enabled, newCount, accuracy) ==
  IF newCount > MinEvaluations /\ Less(accuracy, RetireBelow) THEN FALSE ELSE enabled

\* retirement at a mean of 0.3 or less
retireAtThreshold(enabled, newCount, accuracy) ==
  IF newCount >= MinEvaluations /\ LessEq(accuracy, RetireBelow) THEN FALSE ELSE enabled

\* the retirement rule of lines 295-297: the new value of enabled
retire(enabled, newCount, accuracy) ==
  IF newCount >= MinEvaluations /\ Less(accuracy, RetireBelow) THEN FALSE ELSE enabled

\* the design after one fitness update
updated(agent, result) ==
  LET oldCount == agent.fitness.evaluationCount
      newCount == oldCount + 1
      acc == runningAverage(agent.fitness.accuracy, oldCount, result.accuracy)
  IN  [agent EXCEPT
         !.fitness = Fitness(acc, confidenceLow(acc, newCount),
                             confidenceHigh(acc, newCount), newCount),
         !.enabled = retire(agent.enabled, newCount, acc)]

\* updateFitness that drops retired designs from the archive
updateFitnessPrune(arch, id, result) ==
  LET i == find(arch, id)
  IN  IF i = 0 THEN arch
      ELSE SelectSeq([arch EXCEPT ![i] = updated(arch[i], result)], LAMBDA a : a.enabled)

\* updateFitness that leaves a disabled design as it is
updateFitnessEnabledOnly(arch, id, result) ==
  LET i == find(arch, id)
  IN  IF i = 0 \/ ~arch[i].enabled THEN arch
      ELSE [arch EXCEPT ![i] = updated(arch[i], result)]

\* updateFitness that updates every design holding the id
updateFitnessEvery(arch, id, result) ==
  [k \in 1..Len(arch) |-> IF arch[k].id = id THEN updated(arch[k], result) ELSE arch[k]]

\* updateFitness: the archive after the call (unchanged when id is unknown)
updateFitness(arch, id, result) ==
  LET i == find(arch, id)
  IN  IF i = 0 THEN arch ELSE [arch EXCEPT ![i] = updated(arch[i], result)]

\* ---- inputs -----------------------------------------------------------------

\* accuracies an evaluator reports, all in [0, 1]
Accuracies == {Num(1, 10), Num(7, 10)}

Results == {EvaluationResult(TRUE, a, << >>, 1) : a \in Accuracies}

ZeroFitness == Fitness(Zero, Zero, Zero, 0)

\* candidates handed to ArchiveManager.add by a caller other than the engine
AddGenerations == {1}
AddFitness == {ZeroFitness, Fitness(Num(1, 5), Num(1, 10), Num(3, 10), 2)}
Candidates ==
  [name : {"manual"}, thought : {"by-hand"}, code : {"manual-code"},
   generation : AddGenerations, fitness : AddFitness]

\* the candidate a caller adds by hand while it also runs the engine
EngineCandidates == {c \in Candidates : c.fitness # ZeroFitness}

UnknownId == "no-such-agent"

\* ids handed to updateFitness and evaluateAgent: the first baseline design,
\* the id add gives a generation-1 candidate at clock 0, and an unknown id
EvaluatedIds == {baselineId(0), genId(1, 0), UnknownId}

\* designs the oracle answers with
OracleDesigns ==
  { [name |-> "Debate", thought |-> "two-sided", code |-> "debate"],
    [name |-> "Planner", thought |-> "plan-first", code |-> "planner"] }

\* ---- state ------------------------------------------------------------------

VARIABLES
  archive,     \* ArchiveManager.archive
  disk,        \* the document at archivePath
  now,         \* the reading of Date.now()
  generation,  \* MetaAgentSearch.generation
  config,      \* MetaAgentSearch.config
  calls,       \* engine calls suspended at an await
  returned,    \* what the last completed call returned
  obs,         \* history, per archive position: what updateFitness did to it
  started,     \* engine calls started so far
  opened,      \* history: the document the constructor found
  writes,      \* history: the number of writeFileSync calls
  peer         \* the archive of a second ArchiveManager on the same archivePath

vars == << archive, disk, now, generation, config, calls, returned, obs, started,
           opened, writes, peer >>

\* history of a design: its evaluation count when stored, the number of
\* updateFitness calls naming its id since, the number applied to it and their sum
NoHistory(cnt) == [init |-> cnt, named |-> 0, applied |-> 0, sum |-> Zero]

NoReturn == [op |-> "none"]

RECURSIVE total(_, _)
total(h, k) == IF k = 0 THEN 0 ELSE h[k].applied + total(h, k - 1)

\* updateFitness calls applied to stored designs so far
evals == total(obs, Len(obs))

\* the part of the state the archive and the engine operate on
World ==
  [archive |-> archive, disk |-> disk, generation |-> generation, obs |-> obs,
   writes |-> writes]

\* the history after updateFitness(id, result) on archive arch
observe(arch, h, id, result) ==
  [k \in 1..Len(h) |->
     IF arch[k].id # id THEN h[k]
     ELSE IF k = find(arch, id)
          THEN [h[k] EXCEPT !.named = @ + 1, !.applied = @ + 1,
                            !.sum = Plus(@, result.accuracy)]
          ELSE [h[k] EXCEPT !.named = @ + 1]]

\* add that leaves the file as it is
archiveAddUnsaved(w, agent, t) ==
  [w EXCEPT !.archive = add(w.archive, agent, t),
            !.obs = Append(@, NoHistory(agent.fitness.evaluationCount))]

\* ArchiveManager.add with its save
archiveAdd(w, agent, t) ==
  LET arch == add(w.archive, agent, t)
  IN  [w EXCEPT !.archive = arch, !.disk = save(arch), !.writes = @ + 1,
                !.obs = Append(@, NoHistory(agent.fitness.evaluationCount))]

\* updateFitness that saves whether or not it found the id
archiveUpdateFitnessSaving(w, id, result) ==
  IF find(w.archive, id) = 0 THEN [w EXCEPT !.disk = save(w.archive), !.writes = @ + 1]
  ELSE LET arch == updateFitness(w.archive, id, result)
       IN  [w EXCEPT !.archive = arch, !.disk = save(arch), !.writes = @ + 1,
                     !.obs = observe(w.archive, @, id, result)]

\* ArchiveManager.updateFitness with its save; an unknown id returns early
archiveUpdateFitness(w, id, result) ==
  IF find(w.archive, id) = 0 THEN w
  ELSE LET arch == updateFitness(w.archive, id, result)
       IN  [w EXCEPT !.archive = arch, !.disk = save(arch), !.writes = @ + 1,
                     !.obs = observe(w.archive, @, id, result)]

\* a load without the catch around JSON.parse: the constructor throws and the
\* archive stays empty
loadUncaught(doc, t) ==
  IF doc.kind = "agents"
  THEN [archive |-> parseAgents(doc), disk |-> doc, writes |-> 0]
  ELSE IF doc.kind \in {"no-agents", "agents-not-array", "garbage"}
  THEN [archive |-> << >>, disk |-> doc, writes |-> 0]
  ELSE [archive |-> initializeWithBaseline(t), disk |-> save(initializeWithBaseline(t)),
        writes |-> 1]

\* a load that seeds the baseline before whatever the document holds
loadReseeding(doc, t) ==
  IF doc.kind = "agents"
  THEN [archive |-> initializeWithBaseline(t) \o parseAgents(doc),
        disk |-> save(initializeWithBaseline(t) \o parseAgents(doc)), writes |-> 1]
  ELSE [archive |-> initializeWithBaseline(t), disk |-> save(initializeWithBaseline(t)),
        writes |-> 1]

\* the constructor's load: parse the document, or seed the baseline
\* (writes: the number of writeFileSync calls it makes)
load(doc, t) ==
  IF doc.kind = "agents"
  THEN [archive |-> parseAgents(doc), disk |-> doc, writes |-> 0]
  ELSE IF doc.kind \in {"no-agents", "agents-not-array"}
  THEN [archive |-> << >>, disk |-> doc, writes |-> 0]
  ELSE [archive |-> initializeWithBaseline(t), disk |-> save(initializeWithBaseline(t)),
        writes |-> 1]

\* the default SearchConfig of the constructor
DefaultConfig ==
  [maxGenerations |-> 10, evaluationsPerAgent |-> 5, reflexionSteps |-> 2,
   minFitnessThreshold |-> Num(3, 10)]

\* a freshly constructed ArchiveManager over an empty data directory
Init ==
  /\ now = 0
  /\ archive = load(NoFile, 0).archive
  /\ disk = load(NoFile, 0).disk
  /\ writes = load(NoFile, 0).writes
  /\ opened = NoFile
  /\ generation = 0
  /\ config = DefaultConfig
  /\ calls = << >>
  /\ returned = NoReturn
  /\ obs = [k \in 1..Len(archive) |-> NoHistory(archive[k].fitness.evaluationCount)]
  /\ started = 0
  /\ peer = << >>

\* ---- ArchiveManager, called directly ----------------------------------------

Tick ==
  /\ now < MaxClock
  /\ now' = now + 1
  /\ UNCHANGED << archive, disk, generation, config, calls, returned, obs, started,
                  opened, writes, peer >>

SetWorld(w) ==
  /\ archive' = w.archive
  /\ disk' = w.disk
  /\ generation' = w.generation
  /\ obs' = w.obs
  /\ writes' = w.writes

Add(agent) ==
  /\ SetWorld(archiveAdd(World, agent, now))
  /\ returned' = [op |-> "add", value |-> archive'[Len(archive')]]
  /\ UNCHANGED << now, config, calls, opened, peer >>

UpdateFitness(id, result) ==
  /\ SetWorld(archiveUpdateFitness(World, id, result))
  /\ returned' = [op |-> "updateFitness", known |-> find(archive, id) # 0]
  /\ UNCHANGED << now, config, calls, opened, peer >>

\* the arguments getTopPerforming is called with: getStatus's 3, the default 5
TopArguments == {3, 5}

GetTopPerforming(n) ==
  /\ archive' = topPerformingCall(archive, n).archive
  /\ returned' = [op |-> "getTopPerforming", n |-> n,
                  value |-> topPerformingCall(archive, n).value]
  /\ UNCHANGED << disk, now, generation, config, calls, obs, started, opened, writes, peer >>

\* ---- MetaAgentSearch ---------------------------------------------------------

\* toFixed(2): the number of hundredths, halves rounded up
toFixed2(a) == (2 * 100 * a.n + a.d) \div (2 * a.d)

\* buildArchivePrompt without its filter: the top 5 of all designs
buildArchivePromptAll(arch) ==
  LET top5 == slice(sort(arch), 5)
  IN  [k \in 1..Len(top5) |->
         [name |-> top5[k].name, fitness |-> toFixed2(top5[k].fitness.accuracy),
          thought |-> top5[k].thought, code |-> top5[k].code]]

\* buildArchivePrompt: what the prompt renders of each of the top 5 enabled designs
buildArchivePrompt(arch) ==
  LET top5 == slice(sort(SelectSeq(arch, LAMBDA a : a.enabled)), 5)
  IN  [k \in 1..Len(top5) |->
         [name |-> top5[k].name, fitness |-> toFixed2(top5[k].fitness.accuracy),
          thought |-> top5[k].thought, code |-> top5[k].code]]

NoDesign == [name |-> "", thought |-> "", code |-> ""]

\* history: the archive and the number of writes when runGeneration was entered,
\* and the value its increment gave the counter
NoEntry == [archive |-> << >>, writes |-> 0, generation |-> 0]

\* history: what the oracle answered a call of this generation
Rejected == [ok |-> FALSE, design |-> NoDesign]
Answered(design) == [ok |-> TRUE, design |-> design]

\* history: the archive, the counter and the number of writes when runSearch was
\* entered
NoBegin == [archive |-> << >>, generation |-> 0, writes |-> 0]

\* an engine call: op is the method called, pc the await it is suspended at;
\* history of the call: invoked counts its runGeneration calls, failed those
\* whose first completeJson rejected, evaluates its evaluator.evaluate calls
NewCall(op) ==
  [op |-> op, pc |-> "start", prompt |-> << >>, asked |-> << >>, design |-> NoDesign,
   i |-> 0, agentId |-> "", code |-> "", agent |-> 0, iter |-> 0,
   discovered |-> << >>, progress |-> << >>, entry |-> NoEntry, answers |-> << >>,
   base |-> 0, rounds |-> << >>, begin |-> NoBegin, invoked |-> 0, failed |-> 0,
   evaluates |-> 0]

Suspended(w, f) == [w |-> w, f |-> f, done |-> FALSE, ret |-> NoReturn]
Completed(w, f, ret) == [w |-> w, f |-> f, done |-> TRUE, ret |-> ret]

NotFound == EvaluationResult(FALSE, Zero, << "Agent not found" >>, 0)

\* runGeneration up to the await of the first completeJson
runGeneration(w, f) ==
  Suspended([w EXCEPT !.generation = @ + 1],
            [f EXCEPT !.pc = "completeJson", !.prompt = buildArchivePrompt(w.archive),
                      !.asked = << "SYSTEM_PROMPT" >>, !.design = NoDesign, !.i = 0,
                      !.entry = [archive |-> w.archive, writes |-> w.writes,
                                 generation |-> w.generation + 1],
                      !.answers = << >>, !.invoked = @ + 1])

\* the head of runSearch's for loop
searchLoop(w, f, cfg) ==
  IF f.iter < cfg.maxGenerations
  THEN runGeneration(w, f)
  ELSE Completed(w, f, [op |-> "runSearch", threw |-> FALSE, value |-> f.discovered,
                        progress |-> f.progress, base |-> f.base, rounds |-> f.rounds,
                        invoked |-> f.invoked, failed |-> f.failed,
                        evaluates |-> f.evaluates])

\* runSearch keeping only what is strictly above the threshold
searchKeepAbove(w, f, cfg, result) ==
  LET keep == Less(cfg.minFitnessThreshold, result.accuracy)
      g == [f EXCEPT
              !.discovered = IF keep THEN Append(@, f.agent) ELSE @,
              !.progress = IF keep THEN Append(@, << f.iter, f.agent >>) ELSE @,
              !.rounds = Append(@, [agent |-> f.agent, accuracy |-> result.accuracy]),
              !.iter = @ + 1]
  IN  searchLoop(w, g, cfg)

\* runSearch after evaluateAgent returned result: the threshold test, i++
\* (rounds is history: the design evaluated and the accuracy returned)
searchKeep(w, f, cfg, result) ==
  LET keep == LessEq(cfg.minFitnessThreshold, result.accuracy)
      g == [f EXCEPT
              !.discovered = IF keep THEN Append(@, f.agent) ELSE @,
              !.progress = IF keep THEN Append(@, << f.iter, f.agent >>) ELSE @,
              !.rounds = Append(@, [agent |-> f.agent, accuracy |-> result.accuracy]),
              !.iter = @ + 1]
  IN  searchLoop(w, g, cfg)

\* what follows the return of evaluateAgent
evaluated(w, f, cfg, result) ==
  IF f.op = "runSearch" THEN searchKeep(w, f, cfg, result)
  ELSE Completed(w, f, [op |-> "evaluateAgent", threw |-> FALSE, value |-> result,
                        begin |-> f.begin])

\* evaluateAgent without the test for a missing agent: the evaluator is called
evaluateAgentUnchecked(w, f, cfg, agentId) ==
  LET k == find(getAll(w.archive), agentId)
  IN  Suspended(w, [f EXCEPT !.pc = "evaluate", !.agentId = agentId,
                             !.code = IF k = 0 THEN "" ELSE w.archive[k].code])

\* evaluateAgent up to the await of evaluator.evaluate
evaluateAgent(w, f, cfg, agentId) ==
  LET k == find(getAll(w.archive), agentId)
  IN  IF k = 0 THEN evaluated(w, f, cfg, NotFound)
      ELSE Suspended(w, [f EXCEPT !.pc = "evaluate", !.agentId = agentId,
                                  !.code = w.archive[k].code, !.evaluates = @ + 1])

\* step 4 of runGeneration: the add, and what follows the return of the agent
store(w, f, cfg, t) ==
  LET v == archiveAdd(w, [name |-> f.design.name, thought |-> f.design.thought,
                          code |-> f.design.code, generation |-> w.generation,
                          fitness |-> ZeroFitness], t)
      k == Len(v.archive)
      g == [f EXCEPT !.agent = k, !.asked = << >>, !.design = NoDesign, !.i = 0,
                     !.entry = NoEntry, !.answers = << >>]
  IN  IF f.op = "runSearch"
      THEN evaluateAgent(v, g, cfg, v.archive[k].id)
      ELSE Completed(v, g, [op |-> "runGeneration", agent |-> k, answers |-> f.answers])

reflexionPrompt(i) == IF i = 0 THEN "REFLEXION_PROMPT_1" ELSE "REFLEXION_PROMPT_2"

\* the reflexion loop choosing its prompt by the number of rounds that answered
reflexionBySuccesses(w, f, cfg, t) ==
  IF f.i < cfg.reflexionSteps
  THEN Suspended(w, [f EXCEPT !.pc = "reflexion", !.prompt = << >>,
                       !.asked = Append(@, [prompt |-> reflexionPrompt(
                                              Len(SelectSeq(f.answers, LAMBDA a : a.ok)) - 1),
                                            design |-> f.design])])
  ELSE store(w, [f EXCEPT !.prompt = << >>], cfg, t)

\* the reflexion loop at index f.i: the next completeJson, or the add
reflexion(w, f, cfg, t) ==
  IF f.i < cfg.reflexionSteps
  THEN Suspended(w, [f EXCEPT !.pc = "reflexion", !.prompt = << >>,
                       !.asked = Append(@, [prompt |-> reflexionPrompt(f.i),
                                            design |-> f.design])])
  ELSE store(w, [f EXCEPT !.prompt = << >>], cfg, t)

Remove(cs, c) == SubSeq(cs, 1, c - 1) \o SubSeq(cs, c + 1, Len(cs))

\* a call starts: r is its state at its first await, or at its return
Begin(r) ==
  /\ SetWorld(r.w)
  /\ calls' = IF r.done THEN calls ELSE Append(calls, r.f)
  /\ returned' = IF r.done THEN r.ret ELSE returned
  /\ started' = started + 1
  /\ UNCHANGED << now, config, opened, peer >>

\* call c resumes: r is its state at its next await, or at its return
Resume(c, r) ==
  /\ SetWorld(r.w)
  /\ calls' = IF r.done THEN Remove(calls, c) ELSE [calls EXCEPT ![c] = r.f]
  /\ returned' = IF r.done THEN r.ret ELSE returned
  /\ UNCHANGED << now, config, started, opened, peer >>

\* the generation counter is capped at one more than one search's budget
MaxCounter == MaxGenerations + 1

StartRunGeneration ==
  /\ calls = << >>
  /\ started < MaxCalls
  /\ generation + 1 <= MaxCounter
  /\ Begin(runGeneration(World, NewCall("runGeneration")))

StartEvaluateAgent(agentId) ==
  /\ calls = << >>
  /\ started < MaxCalls
  /\ Begin(evaluateAgent(World, NewCall("evaluateAgent"), config, agentId))

StartRunSearch ==
  /\ calls = << >>
  /\ started < MaxCalls
  /\ generation + config.maxGenerations <= MaxCounter
  /\ Begin(searchLoop(World, [NewCall("runSearch") EXCEPT
                                !.base = Len(archive),
                                !.begin = [archive |-> archive, generation |-> generation,
                                           writes |-> writes]], config))

\* the first completeJson rejects and the catch does not return: the reflexion
\* loop runs on the empty design
CompleteJsonFallsThrough(c) ==
  /\ calls[c].pc = "completeJson"
  /\ Resume(c, reflexion(World, [calls[c] EXCEPT !.design = NoDesign, !.i = 0],
                         config, now))

\* the first completeJson rejects and runSearch does not skip the round: it
\* evaluates the design the archive ends with
CompleteJsonFailsEvaluates(c) ==
  /\ calls[c].pc = "completeJson"
  /\ Resume(c, IF calls[c].op = "runSearch"
               THEN evaluateAgent(World, [calls[c] EXCEPT !.prompt = << >>, !.asked = << >>,
                                                         !.entry = NoEntry,
                                                         !.failed = @ + 1,
                                                         !.agent = Len(archive)],
                                  config, archive[Len(archive)].id)
               ELSE Completed(World, calls[c], [op |-> "runGeneration", agent |-> 0]))

\* the first completeJson rejects and the failed generation gives its number
\* back before runGeneration returns null
CompleteJsonFailsUncounting(c) ==
  /\ calls[c].pc = "completeJson"
  /\ Resume(c, IF calls[c].op = "runSearch"
               THEN searchLoop([World EXCEPT !.generation = @ - 1],
                               [calls[c] EXCEPT !.iter = @ + 1, !.prompt = << >>,
                                                !.asked = << >>, !.entry = NoEntry,
                                                !.failed = @ + 1],
                               config)
               ELSE Completed([World EXCEPT !.generation = @ - 1], calls[c],
                              [op |-> "runGeneration", agent |-> 0]))

\* the first completeJson rejects: runGeneration returns null
CompleteJsonFails(c) ==
  /\ calls[c].pc = "completeJson"
  /\ Resume(c, IF calls[c].op = "runSearch"
               THEN searchLoop(World, [calls[c] EXCEPT !.iter = @ + 1, !.prompt = << >>,
                                                       !.asked = << >>, !.entry = NoEntry,
                                                       !.failed = @ + 1],
                               config)
               ELSE Completed(World, calls[c], [op |-> "runGeneration", agent |-> 0]))

CompleteJsonReturns(c, design) ==
  /\ calls[c].pc = "completeJson"
  /\ Resume(c, reflexion(World, [calls[c] EXCEPT !.design = design, !.i = 0,
                                                 !.answers = << Answered(design) >>],
                         config, now))

\* a reflexion round rejects and the rejection is not caught: the generation
\* ends without a design
ReflexionAborts(c) ==
  /\ calls[c].pc = "reflexion"
  /\ Resume(c, IF calls[c].op = "runSearch"
               THEN searchLoop(World, [calls[c] EXCEPT !.iter = @ + 1, !.asked = << >>,
                                                       !.design = NoDesign, !.i = 0,
                                                       !.entry = NoEntry,
                                                       !.answers = << >>], config)
               ELSE Completed(World, calls[c], [op |-> "runGeneration", agent |-> 0]))

\* a reflexion round rejects: the design is kept
ReflexionFails(c) ==
  /\ calls[c].pc = "reflexion"
  /\ Resume(c, reflexion(World, [calls[c] EXCEPT !.i = @ + 1,
                                                 !.answers = Append(@, Rejected)],
                         config, now))

ReflexionReturns(c, refined) ==
  /\ calls[c].pc = "reflexion"
  /\ Resume(c, reflexion(World, [calls[c] EXCEPT !.design = refined, !.i = @ + 1,
                                                 !.answers = Append(@, Answered(refined))],
                         config, now))

\* the evaluator returns and the result is applied to the fitness the design had
\* when evaluateAgent was called
EvaluateReturnsStale(c, result) ==
  /\ calls[c].pc = "evaluate"
  /\ LET k == find(calls[c].begin.archive, calls[c].agentId)
         stale == IF k = 0 THEN World
                  ELSE [World EXCEPT !.archive[k].fitness =
                                       calls[c].begin.archive[k].fitness]
     IN  Resume(c, evaluated([archiveUpdateFitness(stale, calls[c].agentId, result)
                                EXCEPT !.obs = observe(archive, obs, calls[c].agentId,
                                                       result)],
                             calls[c], config, result))

\* the evaluator returns and only a result with success = true is applied
EvaluateReturnsCountingSuccesses(c, result) ==
  /\ calls[c].pc = "evaluate"
  /\ Resume(c, evaluated(IF result.success
                         THEN archiveUpdateFitness(World, calls[c].agentId, result)
                         ELSE World,
                         calls[c], config, result))

\* the evaluator returns and runSearch goes on before the result is applied:
\* the next prompt is built first, updateFitness runs after it
EvaluateReturnsLate(c, result) ==
  /\ calls[c].pc = "evaluate"
  /\ Resume(c, [evaluated(World, calls[c], config, result) EXCEPT
                  !.w = archiveUpdateFitness(@, calls[c].agentId, result)])

EvaluateReturns(c, result) ==
  /\ calls[c].pc = "evaluate"
  /\ Resume(c, evaluated(archiveUpdateFitness(World, calls[c].agentId, result),
                         calls[c], config, result))

\* evaluator.evaluate rejects: nothing catches it, the call rejects
EvaluateFails(c) ==
  /\ calls[c].pc = "evaluate"
  /\ Resume(c, Completed(World, calls[c], [op |-> calls[c].op, threw |-> TRUE]))

\* getStatus that counts every design as enabled
getStatusCountingAll(arch, gen) ==
  [total |-> Len(getAll(arch)), enabled |-> Len(getAll(arch)), generation |-> gen,
   top |-> getTopPerforming(arch, 3)]

\* getStatus: the counts and the top 3 it renders
getStatus(arch, gen) ==
  [total |-> Len(getAll(arch)), enabled |-> Len(getEnabled(arch)), generation |-> gen,
   top |-> getTopPerforming(arch, 3)]

GetStatus ==
  /\ returned' = [op |-> "getStatus", value |-> getStatus(archive, generation)]
  /\ UNCHANGED << archive, disk, now, generation, config, calls, obs, started,
                  opened, writes, peer >>

\* getArchive: a copy of the archive
GetArchive ==
  /\ returned' = [op |-> "getArchive", value |-> getAll(archive)]
  /\ UNCHANGED << archive, disk, now, generation, config, calls, obs, started,
                  opened, writes, peer >>

\* getTopAgents(n): getTopPerforming(n) of the archive
GetTopAgents(n) ==
  /\ archive' = topPerformingCall(archive, n).archive
  /\ returned' = [op |-> "getTopAgents", n |-> n,
                  value |-> topPerformingCall(archive, n).value]
  /\ UNCHANGED << disk, now, generation, config, calls, obs, started, opened, writes, peer >>

\* a document an earlier lifetime left behind: baseline-0 retired after five
\* evaluations (0.1 four times, then 0.7)
RECURSIVE replay(_, _)
replay(agent, accs) ==
  IF accs = << >> THEN agent
  ELSE replay(updated(agent, EvaluationResult(TRUE, Head(accs), << >>, 1)), Tail(accs))

EarlierRun ==
  save([initializeWithBaseline(0) EXCEPT
          ![1] = replay(@, << Num(1, 10), Num(1, 10), Num(1, 10), Num(1, 10),
                              Num(7, 10) >>)])

InitialDisks == {NoFile, EarlierRun}

Configs ==
  [maxGenerations : {MaxGenerations}, evaluationsPerAgent : {5},
   reflexionSteps : {0, 2}, minFitnessThreshold : {Num(7, 10)}]

\* a freshly constructed MetaAgentSearch
EngineInit ==
  /\ now = 0
  /\ \E doc \in InitialDisks :
       /\ archive = load(doc, 0).archive
       /\ disk = load(doc, 0).disk
       /\ writes = load(doc, 0).writes
       /\ opened = doc
  /\ generation = 0
  /\ config \in Configs
  /\ calls = << >>
  /\ returned = NoReturn
  /\ obs = [k \in 1..Len(archive) |-> NoHistory(archive[k].fitness.evaluationCount)]
  /\ started = 0
  /\ peer = << >>

EngineNext ==
  \/ Tick
  \/ StartRunGeneration
  \/ \E id \in EvaluatedIds : StartEvaluateAgent(id)
  \/ StartRunSearch
  \/ \E c \in 1..Len(calls) :
       \/ CompleteJsonFails(c)
       \/ \E design \in OracleDesigns : CompleteJsonReturns(c, design)
       \/ ReflexionFails(c)
       \/ \E refined \in OracleDesigns : ReflexionReturns(c, refined)
       \/ \E result \in Results : EvaluateReturns(c, result)
       \/ EvaluateFails(c)
  \/ GetStatus
  \/ \E agent \in EngineCandidates :
       calls = << >> /\ started < MaxCalls /\ started' = started + 1 /\ Add(agent)
  \/ \E id \in EvaluatedIds, result \in Results :
       calls = << >> /\ started < MaxCalls /\ started' = started + 1
                     /\ UpdateFitness(id, result)

EngineSpec == EngineInit /\ [][EngineNext]_vars

\* the engine as the callers of runSearch see it: the archive is private, they
\* run searches and read the engine's state, also while a search is suspended
StatusNext ==
  \/ Tick
  \/ StartRunSearch
  \/ \E c \in 1..Len(calls) :
       \/ CompleteJsonFails(c)
       \/ \E design \in OracleDesigns : CompleteJsonReturns(c, design)
       \/ ReflexionFails(c)
       \/ \E refined \in OracleDesigns : ReflexionReturns(c, refined)
       \/ \E result \in Results : EvaluateReturns(c, result)
       \/ EvaluateFails(c)
  \/ GetStatus
  \/ GetArchive
  \/ \E n \in TopArguments : GetTopAgents(n)

StatusSpec == EngineInit /\ [][StatusNext]_vars

\* ---- writeFileSync throws ----------------------------------------------------

\* add that takes the design back when the writeFileSync of its save throws
archiveAddWriteFailsRolledBack(w, agent, t) == w

\* add when the writeFileSync of its save throws: the design is pushed, the file
\* stays as it was
archiveAddWriteFails(w, agent, t) ==
  [w EXCEPT !.archive = add(w.archive, agent, t),
            !.obs = Append(@, NoHistory(agent.fitness.evaluationCount))]

\* updateFitness of a stored design when the writeFileSync of its save throws:
\* the fitness is assigned, the file stays as it was
archiveUpdateFitnessWriteFails(w, id, result) ==
  [w EXCEPT !.archive = updateFitness(w.archive, id, result),
            !.obs = observe(w.archive, @, id, result)]

Threw(op) == [op |-> op, threw |-> TRUE]

\* step 4 of runGeneration with a catch around the add: the generation ends
\* without a design, as when the oracle fails
storeWriteFailsAbsorbed(w, f, cfg, t) ==
  LET v == archiveAddWriteFails(w, [name |-> f.design.name, thought |-> f.design.thought,
                                    code |-> f.design.code, generation |-> w.generation,
                                    fitness |-> ZeroFitness], t)
      g == [f EXCEPT !.iter = @ + 1, !.asked = << >>, !.design = NoDesign, !.i = 0,
                     !.entry = NoEntry, !.answers = << >>]
  IN  IF f.op = "runSearch" THEN searchLoop(v, g, cfg)
      ELSE Completed(v, g, [op |-> "runGeneration", agent |-> 0])

\* step 4 of runGeneration when the save of the add throws: nothing catches it
\* in add, runGeneration or runSearch, the call rejects
storeWriteFails(w, f, cfg, t) ==
  LET v == archiveAddWriteFails(w, [name |-> f.design.name, thought |-> f.design.thought,
                                    code |-> f.design.code, generation |-> w.generation,
                                    fitness |-> ZeroFitness], t)
  IN  Completed(v, f, Threw(f.op))

\* the oracle answers, no reflexion round follows, and the save of the add throws
CompleteJsonReturnsWriteFails(c, design) ==
  /\ calls[c].pc = "completeJson"
  /\ config.reflexionSteps = 0
  /\ Resume(c, storeWriteFails(World, [calls[c] EXCEPT !.design = design], config, now))

\* the last reflexion round rejects and the save of the add throws
ReflexionFailsWriteFails(c) ==
  /\ calls[c].pc = "reflexion"
  /\ calls[c].i + 1 = config.reflexionSteps
  /\ Resume(c, storeWriteFails(World, calls[c], config, now))

\* the last reflexion round answers and the save of the add throws
ReflexionReturnsWriteFails(c, refined) ==
  /\ calls[c].pc = "reflexion"
  /\ calls[c].i + 1 = config.reflexionSteps
  /\ Resume(c, storeWriteFails(World, [calls[c] EXCEPT !.design = refined], config, now))

\* the evaluator returns and the save of updateFitness throws: the call rejects
EvaluateReturnsWriteFails(c, result) ==
  /\ calls[c].pc = "evaluate"
  /\ find(archive, calls[c].agentId) # 0
  /\ Resume(c, Completed(archiveUpdateFitnessWriteFails(World, calls[c].agentId, result),
                         calls[c], Threw(calls[c].op)))

\* add called on the archive, its save throws
AddWriteFails(agent) ==
  /\ SetWorld(archiveAddWriteFails(World, agent, now))
  /\ returned' = Threw("add")
  /\ UNCHANGED << now, config, calls, opened, peer >>

\* updateFitness of a stored design called on the archive, its save throws
UpdateFitnessWriteFails(id, result) ==
  /\ find(archive, id) # 0
  /\ SetWorld(archiveUpdateFitnessWriteFails(World, id, result))
  /\ returned' = Threw("updateFitness")
  /\ UNCHANGED << now, config, calls, opened, peer >>

FaultNext ==
  \/ Tick
  \/ StartRunGeneration
  \/ \E id \in EvaluatedIds : StartEvaluateAgent(id)
  \/ StartRunSearch
  \/ \E c \in 1..Len(calls) :
       \/ CompleteJsonFails(c)
       \/ \E design \in OracleDesigns : CompleteJsonReturns(c, design)
       \/ ReflexionFails(c)
       \/ \E refined \in OracleDesigns : ReflexionReturns(c, refined)
       \/ \E result \in Results : EvaluateReturns(c, result)
       \/ EvaluateFails(c)
       \/ \E design \in OracleDesigns : CompleteJsonReturnsWriteFails(c, design)
       \/ ReflexionFailsWriteFails(c)
       \/ \E refined \in OracleDesigns : ReflexionReturnsWriteFails(c, refined)
       \/ \E result \in Results : EvaluateReturnsWriteFails(c, result)
  \/ \E agent \in EngineCandidates :
       calls = << >> /\ started < MaxCalls /\ started' = started + 1 /\ AddWriteFails(agent)
  \/ \E id \in EvaluatedIds, result \in Results :
       calls = << >> /\ started < MaxCalls /\ started' = started + 1
                     /\ UpdateFitnessWriteFails(id, result)

FaultSpec == EngineInit /\ [][FaultNext]_vars

Next ==
  \/ Tick
  \/ \E agent \in Candidates :
       Len(archive) < MaxAgents /\ Add(agent) /\ UNCHANGED started
  \/ \E id \in EvaluatedIds, result \in Results :
       /\ find(archive, id) # 0 => evals < MaxEvals
       /\ UpdateFitness(id, result) /\ UNCHANGED started
  \/ \E n \in TopArguments : GetTopPerforming(n)

Spec == Init /\ [][Next]_vars

\* ---- ArchiveManager over a data directory that outlives it -------------------

\* the documents a constructor can find at archivePath
StoredDocs == {NoFile, Garbage, WithoutAgents, AgentsNotArray, EarlierRun}

\* new ArchiveManager(dataDir) returned
Constructed == [op |-> "new", threw |-> FALSE]

StoreInit ==
  /\ now = 0
  /\ \E doc \in StoredDocs :
       /\ archive = load(doc, 0).archive
       /\ disk = load(doc, 0).disk
       /\ writes = load(doc, 0).writes
       /\ opened = doc
  /\ generation = 0
  /\ config = DefaultConfig
  /\ calls = << >>
  /\ returned = Constructed
  /\ obs = [k \in 1..Len(archive) |-> NoHistory(archive[k].fitness.evaluationCount)]
  /\ started = 0
  /\ peer = << >>

\* the highest generation tag among the designs of arch, 0 when there is none
RECURSIVE lastGeneration(_)
lastGeneration(arch) ==
  IF arch = << >> THEN 0
  ELSE IF Head(arch).generation > lastGeneration(Tail(arch))
       THEN Head(arch).generation ELSE lastGeneration(Tail(arch))

\* a constructor that takes the numbering of generations up where the archive
\* left it
ConstructResuming(doc) ==
  /\ archive' = load(doc, now).archive
  /\ disk' = load(doc, now).disk
  /\ writes' = load(doc, now).writes
  /\ opened' = doc
  /\ generation' = lastGeneration(archive')
  /\ returned' = Constructed
  /\ obs' = [k \in 1..Len(archive') |-> NoHistory(archive'[k].fitness.evaluationCount)]
  /\ UNCHANGED << now, config, calls, peer >>

\* new ArchiveManager(dataDir) when archivePath holds doc
Construct(doc) ==
  /\ archive' = load(doc, now).archive
  /\ disk' = load(doc, now).disk
  /\ writes' = load(doc, now).writes
  /\ opened' = doc
  /\ generation' = 0
  /\ returned' = Constructed
  /\ obs' = [k \in 1..Len(archive') |-> NoHistory(archive'[k].fitness.evaluationCount)]
  /\ UNCHANGED << now, config, calls, peer >>

\* a new ArchiveManager is constructed over the same data directory
Reopen == Construct(disk)

\* a new ArchiveManager is constructed after the file was removed or overwritten
ReopenDamaged == \E doc \in StoredDocs \ {EarlierRun} : Construct(doc)

StoreNext ==
  \/ Tick
  \/ \E agent \in Candidates :
       started < MaxOperations /\ started' = started + 1 /\ Add(agent)
  \/ \E id \in EvaluatedIds, result \in Results :
       started < MaxOperations /\ started' = started + 1 /\ UpdateFitness(id, result)
  \/ started < MaxOperations /\ started' = started + 1 /\ Reopen
  \/ started < MaxOperations /\ started' = started + 1 /\ ReopenDamaged

StoreSpec == StoreInit /\ [][StoreNext]_vars

\* ---- MetaAgentSearch over a data directory that outlives it -----------------

\* a document an earlier engine left behind: the baseline and one design it
\* generated as its generation 1
EarlierLifetime ==
  save(Append(initializeWithBaseline(0),
              AgentDesign([name |-> "Earlier", thought |-> "from-an-earlier-lifetime",
                           code |-> "earlier-code", generation |-> 1,
                           fitness |-> ZeroFitness], genId(1, 0), 0, TRUE)))

LifetimeDisks == {NoFile, EarlierLifetime}

\* new MetaAgentSearch(dataDir, llm, evaluator, config) returned
LifetimeInit ==
  /\ now = 0
  /\ \E doc \in LifetimeDisks :
       /\ archive = load(doc, 0).archive
       /\ disk = load(doc, 0).disk
       /\ writes = load(doc, 0).writes
       /\ opened = doc
  /\ generation = 0
  /\ config \in Configs
  /\ calls = << >>
  /\ returned = Constructed
  /\ obs = [k \in 1..Len(archive) |-> NoHistory(archive[k].fitness.evaluationCount)]
  /\ started = 0
  /\ peer = << >>

\* the process restarts: a new MetaAgentSearch over the same data directory
Restart ==
  /\ calls = << >>
  /\ started < MaxCalls
  /\ started' = started + 1
  /\ Reopen

LifetimeNext ==
  \/ Tick
  \/ StartRunGeneration
  \/ \E c \in 1..Len(calls) :
       \/ CompleteJsonFails(c)
       \/ \E design \in OracleDesigns : CompleteJsonReturns(c, design)
       \/ ReflexionFails(c)
       \/ \E refined \in OracleDesigns : ReflexionReturns(c, refined)
  \/ Restart

LifetimeSpec == LifetimeInit /\ [][LifetimeNext]_vars

\* ---- a freshly seeded archive under the engine and updateFitness -------------

\* an engine constructed on an empty data directory
SeededInit ==
  /\ now = 0
  /\ archive = load(NoFile, 0).archive
  /\ disk = load(NoFile, 0).disk
  /\ writes = load(NoFile, 0).writes
  /\ opened = NoFile
  /\ generation = 0
  /\ config \in Configs
  /\ calls = << >>
  /\ returned = NoReturn
  /\ obs = [k \in 1..Len(archive) |-> NoHistory(archive[k].fitness.evaluationCount)]
  /\ started = 0
  /\ peer = << >>

\* ids the callers evaluate: the first seed and the design of generation 1
RetireIds == {baselineId(0), genId(1, 0)}

RetireNext ==
  \/ StartRunGeneration
  \/ \E id \in RetireIds : StartEvaluateAgent(id)
  \/ StartRunSearch
  \/ \E c \in 1..Len(calls) :
       \/ CompleteJsonFails(c)
       \/ \E design \in OracleDesigns : CompleteJsonReturns(c, design)
       \/ ReflexionFails(c)
       \/ \E refined \in OracleDesigns : ReflexionReturns(c, refined)
       \/ \E result \in Results : EvaluateReturns(c, result)
       \/ EvaluateFails(c)
  \/ \E result \in Results :
       /\ calls = << >>
       /\ evals < MaxEvals
       /\ UpdateFitness(baselineId(0), result) /\ UNCHANGED started

RetireSpec == SeededInit /\ [][RetireNext]_vars

\* ---- calls started without awaiting the ones before --------------------------

\* runGeneration called while other calls are suspended
RunGenerationOverlapping ==
  /\ started < MaxCalls
  /\ Begin(runGeneration(World, NewCall("runGeneration")))

\* runSearch called while other calls are suspended
RunSearchOverlapping ==
  /\ started < MaxCalls
  /\ Begin(searchLoop(World, [NewCall("runSearch") EXCEPT
                                !.base = Len(archive),
                                !.begin = [archive |-> archive, generation |-> generation,
                                           writes |-> writes]], config))

\* evaluateAgent called while other calls are suspended (begin is history: the
\* state the call found)
EvaluateAgentOverlapping(agentId) ==
  /\ started < MaxCalls
  /\ Begin(evaluateAgent(World, [NewCall("evaluateAgent") EXCEPT
                                   !.begin = [archive |-> archive,
                                              generation |-> generation,
                                              writes |-> writes]],
                         config, agentId))

\* runGeneration calls that overlap
OverlapNext ==
  \/ Tick
  \/ RunGenerationOverlapping
  \/ \E c \in 1..Len(calls) :
       \/ CompleteJsonFails(c)
       \/ \E design \in OracleDesigns : CompleteJsonReturns(c, design)
       \/ ReflexionFails(c)
       \/ \E refined \in OracleDesigns : ReflexionReturns(c, refined)

OverlapSpec == SeededInit /\ [][OverlapNext]_vars

\* runSearch calls alone, overlapping or not, within one reading of the clock
SearchOnlyNext ==
  \/ RunSearchOverlapping
  \/ \E c \in 1..Len(calls) :
       \/ CompleteJsonFails(c)
       \/ \E design \in OracleDesigns : CompleteJsonReturns(c, design)
       \/ ReflexionFails(c)
       \/ \E refined \in OracleDesigns : ReflexionReturns(c, refined)
       \/ \E result \in Results : EvaluateReturns(c, result)
       \/ EvaluateFails(c)

\* searches of one generation each
SearchOnlyConfigs ==
  [maxGenerations : {1}, evaluationsPerAgent : {5}, reflexionSteps : {0, 2},
   minFitnessThreshold : {Num(7, 10)}]

\* an engine constructed on an empty data directory for such searches
SearchOnlyInit ==
  /\ now = 0
  /\ archive = load(NoFile, 0).archive
  /\ disk = load(NoFile, 0).disk
  /\ writes = load(NoFile, 0).writes
  /\ opened = NoFile
  /\ generation = 0
  /\ config \in SearchOnlyConfigs
  /\ calls = << >>
  /\ returned = NoReturn
  /\ obs = [k \in 1..Len(archive) |-> NoHistory(archive[k].fitness.evaluationCount)]
  /\ started = 0
  /\ peer = << >>

SearchOnlySpec == SearchOnlyInit /\ [][SearchOnlyNext]_vars

\* evaluateAgent calls that overlap
EvaluateOverlapNext ==
  \/ Tick
  \/ \E id \in EvaluatedIds : EvaluateAgentOverlapping(id)
  \/ \E c \in 1..Len(calls) :
       \/ \E result \in Results : EvaluateReturns(c, result)
       \/ EvaluateFails(c)

EvaluateOverlapSpec == EngineInit /\ [][EvaluateOverlapNext]_vars

\* ---- evaluateAgent with evaluators that report failure -----------------------

\* what an evaluator returns: success or not, with its accuracy
AnyResults ==
  Results \cup {EvaluationResult(FALSE, a, << "task failed" >>, 1) : a \in Accuracies}

EvaluateNext ==
  \/ Tick
  \/ \E id \in EvaluatedIds : StartEvaluateAgent(id)
  \/ \E c \in 1..Len(calls) :
       \/ \E result \in AnyResults : EvaluateReturns(c, result)
       \/ EvaluateFails(c)

EvaluateSpec == EngineInit /\ [][EvaluateNext]_vars

\* ---- two ArchiveManagers on one archivePath ---------------------------------

\* the second instance's add writing only the new design behind the document
peerAddAppending(doc, arch, agent, t) ==
  [peer |-> add(arch, agent, t),
   disk |-> save(Append(parseAgents(doc), add(arch, agent, t)[Len(arch) + 1]))]

\* add on the second instance: push on its own array, save of its own array
peerAdd(doc, arch, agent, t) ==
  [peer |-> add(arch, agent, t), disk |-> save(add(arch, agent, t))]

\* updateFitness on the second instance; an unknown id returns before the save
peerUpdateFitness(doc, arch, id, result) ==
  IF find(arch, id) = 0 THEN [peer |-> arch, disk |-> doc]
  ELSE [peer |-> updateFitness(arch, id, result),
        disk |-> save(updateFitness(arch, id, result))]

\* both instances constructed, the first on an empty directory, the second on
\* the document the first one wrote
SharedInit ==
  /\ now = 0
  /\ archive = load(NoFile, 0).archive
  /\ disk = load(NoFile, 0).disk
  /\ writes = load(NoFile, 0).writes
  /\ peer = load(disk, 0).archive
  /\ opened = NoFile
  /\ generation = 0
  /\ config = DefaultConfig
  /\ calls = << >>
  /\ returned = Constructed
  /\ obs = [k \in 1..Len(archive) |-> NoHistory(archive[k].fitness.evaluationCount)]
  /\ started = 0

PeerAdd(agent) ==
  /\ peer' = peerAdd(disk, peer, agent, now).peer
  /\ disk' = peerAdd(disk, peer, agent, now).disk
  /\ writes' = writes + 1
  /\ returned' = [op |-> "peer.add", value |-> peer'[Len(peer')]]
  /\ UNCHANGED << archive, now, generation, config, calls, obs, opened >>

PeerUpdateFitness(id, result) ==
  /\ peer' = peerUpdateFitness(disk, peer, id, result).peer
  /\ disk' = peerUpdateFitness(disk, peer, id, result).disk
  /\ writes' = IF find(peer, id) = 0 THEN writes ELSE writes + 1
  /\ returned' = [op |-> "peer.updateFitness", known |-> find(peer, id) # 0]
  /\ UNCHANGED << archive, now, generation, config, calls, obs, opened >>

\* ids handed to updateFitness on either instance
SharedIds == {baselineId(0), genId(1, 0)}

SharedNext ==
  \/ Tick
  \/ \E agent \in EngineCandidates :
       started < MaxOperations /\ started' = started + 1 /\ Add(agent)
  \/ \E id \in SharedIds, result \in Results :
       started < MaxOperations /\ started' = started + 1 /\ UpdateFitness(id, result)
  \/ \E agent \in EngineCandidates :
       started < MaxOperations /\ started' = started + 1 /\ PeerAdd(agent)
  \/ \E id \in SharedIds, result \in Results :
       started < MaxOperations /\ started' = started + 1
                               /\ PeerUpdateFitness(id, result)

SharedSpec == SharedInit /\ [][SharedNext]_vars

\* ---- properties -------------------------------------------------------------

Designs == 1..Len(archive)

\* C1: a design stored with evaluation count 0 has, after k updateFitness calls
\* were applied to it, a mean equal to the sum of the k accuracies over k.
MeanIsAverage ==
  \A k \in Designs :
    (obs[k].init = 0 /\ obs[k].applied > 0) =>
      /\ archive[k].fitness.evaluationCount = obs[k].applied
      /\ archive[k].fitness.accuracy = Over(obs[k].sum, Int2Num(obs[k].applied))

\* a baseline design (starting mean 0.50 .. 0.58) averaged 0.1, 0.1 and 0.7 to 0.3
MeanIsAverageWitness ==
  \E k \in Designs :
    /\ archive[k].generation = initial
    /\ obs[k].applied = 3 /\ obs[k].sum = Num(9, 10)
    /\ archive[k].fitness.accuracy = Num(3, 10)

\* C2: a design that is disabled stays disabled in the next state, whatever the
\* step is (add, updateFitness, runGeneration, evaluateAgent, runSearch).
NeverReenabled ==
  [][\A k \in Designs :
       ~archive[k].enabled => (k <= Len(archive') /\ ~archive'[k].enabled)]_vars

\* a retired design whose mean a later update brought back to 0.3 or above
NeverReenabledWitness ==
  \E k \in Designs :
    /\ ~archive[k].enabled
    /\ obs[k].applied > 0
    /\ LessEq(RetireBelow, archive[k].fitness.accuracy)

InUnit(f) ==
  /\ LessEq(Zero, f.confidenceLow)
  /\ LessEq(f.confidenceLow, f.accuracy)
  /\ LessEq(f.accuracy, f.confidenceHigh)
  /\ LessEq(f.confidenceHigh, One)

\* C3: every design has 0 <= confidenceLow <= accuracy <= confidenceHigh <= 1.
BoundsOrdered == \A k \in Designs : InUnit(archive[k].fitness)

\* an updated design with both bounds strictly inside, and one with both clamped
BoundsOrderedWitness ==
  /\ \E k \in Designs :
       /\ obs[k].applied > 0
       /\ Less(Zero, archive[k].fitness.confidenceLow)
       /\ Less(archive[k].fitness.confidenceHigh, One)
  /\ \E k \in Designs :
       /\ obs[k].applied > 0
       /\ archive[k].fitness.confidenceLow = Zero
       /\ archive[k].fitness.confidenceHigh = One

\* the first baseline design after exactly k updates, each with accuracy 0.1
TenthsOnly(k) ==
  /\ obs[1].init = 0 /\ obs[1].applied = k /\ obs[1].sum = Num(k, 10)

Near(a, b, tol) == LessEq(Minus(a, b), tol) /\ LessEq(Minus(b, a), tol)

\* C4 as stated: four updates with 0.1 on the 0.50 baseline give count 4, mean
\* about 0.18, still enabled; the fifth gives count 5, mean about 0.164, disabled.
ScenarioAsStated ==
  /\ TenthsOnly(4) =>
       /\ archive[1].fitness.evaluationCount = 4
       /\ Near(archive[1].fitness.accuracy, Num(18, 100), Num(5, 1000))
       /\ archive[1].enabled
  /\ TenthsOnly(5) =>
       /\ archive[1].fitness.evaluationCount = 5
       /\ Near(archive[1].fitness.accuracy, Num(164, 1000), Num(5, 10000))
       /\ ~archive[1].enabled

\* C4 amended: four updates with 0.1 on the 0.50 baseline give count 4, mean 0.1
\* (the starting 0.50 has weight 0), still enabled; the fifth gives count 5,
\* mean 0.1, disabled.
ScenarioAmended ==
  /\ TenthsOnly(4) =>
       /\ archive[1].fitness.evaluationCount = 4
       /\ archive[1].fitness.accuracy = Num(1, 10)
       /\ archive[1].enabled
  /\ TenthsOnly(5) =>
       /\ archive[1].fitness.evaluationCount = 5
       /\ archive[1].fitness.accuracy = Num(1, 10)
       /\ ~archive[1].enabled

ScenarioWitness ==
  /\ archive[1].id = baselineId(0) /\ TenthsOnly(5) /\ ~archive[1].enabled

\* C5: a design's evaluation count is its count when stored plus the number of
\* updateFitness calls that named its id since.
CountIsInitPlusCalls ==
  \A k \in Designs :
    archive[k].fitness.evaluationCount = obs[k].init + obs[k].named

\* what getTopPerforming(n) has to return from archive arch
TopOf(arch, r, n) ==
  /\ \A j \in 1..Len(r) : r[j].enabled /\ \E k \in 1..Len(arch) : arch[k] = r[j]
  /\ Len(r) = (IF n < Len(getEnabled(arch)) THEN n ELSE Len(getEnabled(arch)))
  /\ \A j \in 1..(Len(r) - 1) :
       LessEq(r[j + 1].fitness.accuracy, r[j].fitness.accuracy)
  /\ \A k \in 1..Len(arch) :
       arch[k].enabled =>
         \/ \E j \in 1..Len(r) : r[j] = arch[k]
         \/ \A j \in 1..Len(r) : LessEq(arch[k].fitness.accuracy, r[j].fitness.accuracy)

\* C6: getTopPerforming(n) returns min(n, enabled) designs, all enabled, by
\* non-increasing mean, and leaves out no enabled design with a higher mean.
TopPerformingRanks ==
  /\ \A n \in 0..(Len(archive) + 1) : TopOf(archive, getTopPerforming(archive, n), n)
  /\ returned.op = "getTopPerforming" => TopOf(archive, returned.value, returned.n)

\* a call that truncated, with a disabled design in the archive
TopPerformingWitness ==
  /\ returned.op = "getTopPerforming"
  /\ Len(returned.value) = returned.n
  /\ returned.n < Len(getEnabled(archive))
  /\ \E k \in Designs : ~archive[k].enabled

\* designs of equal mean keep their archive order in r
Stable(arch, r) ==
  \A p, q \in 1..Len(arch) :
    (/\ p < q /\ arch[p] # arch[q]
     /\ arch[p].fitness.accuracy = arch[q].fitness.accuracy) =>
      \A i, j \in 1..Len(r) : (r[i] = arch[p] /\ r[j] = arch[q]) => i < j

\* C7: getTopPerforming(n) keeps designs of equal mean in insertion order and
\* leaves the archive as it was.
RankingIsStable ==
  /\ [](\A n \in 0..(Len(archive) + 1) : Stable(archive, getTopPerforming(archive, n)))
  /\ [][returned'.op = "getTopPerforming" =>
          (getAll(archive') = getAll(archive) /\ Stable(archive, returned'.value))]_vars

\* a call that returned two different designs of equal mean
RankingIsStableWitness ==
  /\ returned.op = "getTopPerforming"
  /\ \E i, j \in 1..Len(returned.value) :
       /\ i < j /\ returned.value[i] # returned.value[j]
       /\ returned.value[i].fitness.accuracy = returned.value[j].fitness.accuracy

Last(s) == s[Len(s)]

\* C8 as stated: the design add returned is the last of the archive, enabled,
\* with evaluation count 0, mean 0 and both bounds 0.
AddStoresZeroFitness ==
  returned.op = "add" =>
    /\ Last(archive) = returned.value
    /\ Last(archive).enabled
    /\ Last(archive).fitness = ZeroFitness

\* C8 amended: after add(candidate) the archive is the earlier archive followed
\* by the returned design, enabled and with the fitness the candidate carried;
\* a design stored by runGeneration has count 0, mean 0 and both bounds 0.
AddAppends ==
  [][Len(archive') # Len(archive) =>
       /\ Len(archive') = Len(archive) + 1
       /\ SubSeq(archive', 1, Len(archive)) = archive
       /\ Last(archive').enabled
       /\ IF \E a \in Candidates : Add(a)
          THEN \E a \in Candidates :
                 /\ Add(a)
                 /\ Last(archive').fitness = a.fitness
                 /\ returned'.value = Last(archive')
          ELSE Last(archive').fitness = ZeroFitness]_vars

\* a candidate added with a fitness of its own, next to one the engine stored
AddAppendsWitness ==
  /\ returned.op = "add"
  /\ Last(archive).fitness.evaluationCount = 2
  /\ \E k \in Designs :
       archive[k].generation # initial /\ archive[k].fitness = ZeroFitness

\* C9: every step keeps the ids of the archive, in order, as a prefix.
AppendOnly ==
  [][/\ Len(archive) <= Len(archive')
     /\ \A k \in Designs : archive'[k].id = archive[k].id]_vars

\* the archive grew past a retired design that has been updated since
AppendOnlyWitness ==
  /\ Len(archive) > Len(INITIAL_ARCHIVE)
  /\ \E k \in Designs : ~archive[k].enabled /\ obs[k].applied > 0

\* C10: no two designs of the archive share an id.
UniqueIds ==
  \A i, j \in Designs : i # j => archive[i].id # archive[j].id

\* the last call was one that writes: add, updateFitness on a known id, or a
\* construction that seeded the baseline
Wrote ==
  \/ returned.op = "add"
  \/ returned.op = "updateFitness" /\ returned.known
  \/ returned.op = "new" /\ opened.kind \in {"absent", "garbage"}

\* C11: when add, updateFitness on a known id, or the initial seeding has
\* returned, the agents list of the persisted document equals the in-memory
\* archive; and between any two operations of one instance the persisted
\* document holds exactly the designs that are in memory.
PersistedIsArchive ==
  /\ Wrote => disk.kind = "agents" /\ parseAgents(disk) = archive
  /\ disk.kind \notin {"absent", "garbage"}
  /\ load(disk, now).archive = archive

\* an update of a design stored by this instance has just been persisted
PersistedIsArchiveWitness ==
  /\ returned.op = "updateFitness" /\ returned.known
  /\ \E k \in Designs : k > 4 /\ obs[k].applied > 0
  /\ parseAgents(disk) = archive

\* C12: constructing a new archive on the same data directory, after any
\* sequence of add and updateFitness calls, gives the same number of designs,
\* with the same ids in the same order and the same fitness and enabled flag:
\* no seed is added again and none is duplicated.
RoundTrip ==
  [][Reopen =>
       /\ Len(archive') = Len(archive)
       /\ \A k \in Designs :
            /\ archive'[k].id = archive[k].id
            /\ archive'[k].fitness = archive[k].fitness
            /\ archive'[k].enabled = archive[k].enabled]_vars

\* a new instance holds an added design, an evaluated one and a retired one
RoundTripWitness ==
  /\ returned.op = "new" /\ opened.kind = "agents" /\ started >= 3
  /\ \E k \in Designs : k > 4 /\ archive[k].fitness.evaluationCount > 2
  /\ \E k \in Designs : ~archive[k].enabled

\* the starting means of the four baseline designs, in order
BaselineMeans == << Num(50, 100), Num(55, 100), Num(58, 100), Num(52, 100) >>

\* the archive is the four baseline designs, in order, never evaluated, enabled,
\* marked as seeds, and the document on disk is that archive
SeededAndPersisted ==
  /\ Len(archive) = 4
  /\ \A k \in 1..4 :
       /\ archive[k].fitness.accuracy = BaselineMeans[k]
       /\ archive[k].fitness.evaluationCount = 0
       /\ archive[k].enabled
       /\ archive[k].generation = initial
  /\ writes >= 1
  /\ disk.kind = "agents" /\ parseAgents(disk) = archive

SeedsWhenMisshapen ==
  (returned.op = "new" /\ opened.kind \in {"no-agents", "agents-not-array"}) =>
     ~returned.threw /\ SeededAndPersisted

\* C15: when the oracle call for the initial proposal fails, runGeneration
\* returns no design, has asked the oracle nothing but the initial proposal and
\* asks for no refinement, and the archive, in memory and persisted, is as it
\* was when runGeneration was entered, with nothing written.
InitialProposalFails ==
  [][\A c \in 1..Len(calls) :
       CompleteJsonFails(c) =>
         /\ calls[c].asked = << "SYSTEM_PROMPT" >>
         /\ \A d \in 1..Len(calls') : calls'[d].pc # "reflexion"
         /\ calls[c].op = "runGeneration" =>
              /\ returned' = [op |-> "runGeneration", agent |-> 0]
              /\ calls' = Remove(calls, c)
         /\ archive' = calls[c].entry.archive
         /\ parseAgents(disk') = calls[c].entry.archive
         /\ writes' = calls[c].entry.writes]_vars

\* runGeneration has returned no design
InitialProposalFailsWitness ==
  returned = [op |-> "runGeneration", agent |-> 0] /\ started >= 1 /\ generation >= 1

\* the design of the last answer the oracle gave
LastAnswered(answers) ==
  answers[CHOOSE k \in 1..Len(answers) :
            answers[k].ok /\ \A j \in (k + 1)..Len(answers) : ~answers[j].ok].design

\* call c stores one design, the one last answered, behind the archive it found
\* when runGeneration was entered, and returns it
StoresLastAnswered(c, answers) ==
  /\ archive' = Append(calls[c].entry.archive, Last(archive'))
  /\ Last(archive').name = LastAnswered(answers).name
  /\ Last(archive').thought = LastAnswered(answers).thought
  /\ Last(archive').code = LastAnswered(answers).code
  /\ IF calls[c].op = "runGeneration"
     THEN returned'.op = "runGeneration" /\ returned'.agent = Len(archive')
     ELSE c <= Len(calls') /\ calls'[c].agent = Len(archive')

\* call c goes on to the next refinement round with the design d, nothing stored
NextRound(c, d) ==
  /\ archive' = archive
  /\ c <= Len(calls')
  /\ calls'[c].pc = "reflexion"
  /\ calls'[c].design = d

\* C16: once the initial oracle call succeeded, runGeneration adds exactly one
\* design and returns it, whichever refinement rounds fail; a failed round
\* leaves the current design as it was, so name, rationale and body stored are
\* those of the last successful round, or of the initial proposal.
RefinementFailuresKeepDesign ==
  [][\A c \in 1..Len(calls) :
       /\ \A d \in OracleDesigns :
            CompleteJsonReturns(c, d) =>
              IF config.reflexionSteps = 0
              THEN StoresLastAnswered(c, << Answered(d) >>)
              ELSE NextRound(c, d)
       /\ ReflexionFails(c) =>
            IF calls[c].i + 1 = config.reflexionSteps
            THEN StoresLastAnswered(c, Append(calls[c].answers, Rejected))
            ELSE NextRound(c, calls[c].design)
       /\ \A d \in OracleDesigns :
            ReflexionReturns(c, d) =>
              IF calls[c].i + 1 = config.reflexionSteps
              THEN StoresLastAnswered(c, Append(calls[c].answers, Answered(d)))
              ELSE NextRound(c, d)]_vars

\* runGeneration returned a design whose first refinement succeeded and whose
\* second failed: the stored design is the first refinement
RefinementFailuresWitness ==
  /\ returned.op = "runGeneration" /\ returned.agent > 0
  /\ Len(returned.answers) = 3
  /\ returned.answers[2].ok /\ ~returned.answers[3].ok
  /\ returned.answers[2].design # returned.answers[1].design
  /\ archive[returned.agent].code = returned.answers[2].design.code

\* C17: evaluateAgent with an id that no stored design has returns a result
\* with success false, accuracy 0, exactly one error message and duration 0,
\* without calling the evaluator, and leaves every design and the persisted
\* document as they were, with nothing written.
UnknownAgentNotEvaluated ==
  [][\A id \in EvaluatedIds :
       (StartEvaluateAgent(id) /\ \A k \in Designs : archive[k].id # id) =>
         /\ calls' = calls
         /\ returned'.op = "evaluateAgent" /\ ~returned'.threw
         /\ ~returned'.value.success
         /\ returned'.value.accuracy = Zero
         /\ Len(returned'.value.errors) = 1
         /\ returned'.value.duration = 0
         /\ archive' = archive /\ disk' = disk /\ writes' = writes]_vars

\* evaluateAgent has returned its not-found result
UnknownAgentWitness ==
  /\ returned.op = "evaluateAgent" /\ ~returned.threw
  /\ ~returned.value.success /\ returned.value.errors = << "Agent not found" >>
  /\ started >= 1

\* C18: updateFitness with an id that no stored design has returns normally,
\* changes no design and writes nothing to storage.
UnknownIdIsNoOp ==
  [][(returned'.op = "updateFitness" /\ ~returned'.known) =>
       /\ archive' = archive
       /\ disk' = disk
       /\ writes' = writes]_vars

\* updateFitness with an unknown id has returned, on an archive that holds an
\* added design and an evaluated one
UnknownIdWitness ==
  /\ returned.op = "updateFitness" /\ ~returned.known
  /\ Len(archive) > 4 /\ evals > 0

\* the rounds of a search whose evaluation reached the threshold
AtThreshold(rounds) ==
  SelectSeq(rounds, LAMBDA r : LessEq(config.minFitnessThreshold, r.accuracy))

ProgressPassesGeneration ==
  (returned.op = "runSearch" /\ ~returned.threw) =>
     /\ Len(returned.progress) = Len(returned.value)
     /\ \A j \in 1..Len(returned.progress) :
          /\ returned.progress[j][2] = returned.value[j]
          /\ returned.progress[j][1] = archive[returned.value[j]].generation

\* C21: a runSearch in which every oracle call failed returns an empty list
\* without raising, has not called the evaluator, and leaves the archive with
\* the designs, and their fitness, it had when runSearch was entered.
AllOracleCallsFail ==
  [][\A c \in 1..Len(calls) :
       (/\ calls[c].op = "runSearch" /\ calls[c].pc = "completeJson"
        /\ calls[c].failed = calls[c].iter
        /\ calls[c].iter + 1 = config.maxGenerations
        /\ CompleteJsonFails(c)) =>
         /\ returned'.op = "runSearch" /\ ~returned'.threw
         /\ returned'.value = << >>
         /\ calls[c].evaluates = 0
         /\ Len(archive') = Len(calls[c].begin.archive)
         /\ archive' = calls[c].begin.archive]_vars

\* a search has returned after its oracle failed in every generation
AllOracleCallsFailWitness ==
  /\ returned.op = "runSearch" /\ ~returned.threw
  /\ returned.invoked = config.maxGenerations
  /\ returned.failed = returned.invoked
  /\ returned.value = << >>

\* call c is a runSearch that returns its list in this step
SearchReturns(c) ==
  /\ calls[c].op = "runSearch"
  /\ calls' = Remove(calls, c)
  /\ returned'.op = "runSearch" /\ ~returned'.threw

\* C22 as stated: runSearch prunes nothing: when it returns, the archive has
\* grown by one design per successful generation, and every design produced
\* during the run is in the archive with evaluation count 1 and a mean equal to
\* its evaluated accuracy, discovered or not; when every evaluation was below
\* the threshold the list returned is empty.
SearchKeepsEveryDesign ==
  [][\A c \in 1..Len(calls) :
       SearchReturns(c) =>
         /\ Len(archive') = calls[c].base + returned'.invoked - returned'.failed
         /\ Len(returned'.rounds) = returned'.invoked - returned'.failed
         /\ \A j \in 1..Len(returned'.rounds) :
              LET k == returned'.rounds[j].agent
              IN  /\ k \in (calls[c].base + 1)..Len(archive')
                  /\ archive'[k].fitness.evaluationCount = 1
                  /\ archive'[k].fitness.accuracy = returned'.rounds[j].accuracy
         /\ (\A j \in 1..Len(returned'.rounds) :
               Less(returned'.rounds[j].accuracy, config.minFitnessThreshold))
              => returned'.value = << >>]_vars

\* C23 as stated: when the evaluator call for one design fails during
\* runSearch, the round counts as no progress: the loop goes on with the next
\* generation, or, after the last one, runSearch returns the designs discovered
\* in the other rounds.
EvaluatorFailureAbsorbed ==
  [][\A c \in 1..Len(calls) :
       (calls[c].op = "runSearch" /\ calls[c].pc = "evaluate" /\ EvaluateFails(c)) =>
         \/ /\ c <= Len(calls')
            /\ calls'[c].iter = calls[c].iter + 1
            /\ calls'[c].discovered = calls[c].discovered
         \/ /\ calls' = Remove(calls, c)
            /\ returned'.op = "runSearch" /\ ~returned'.threw
            /\ returned'.value = calls[c].discovered]_vars

\* call c is a runSearch that ends in this step, by returning or by rejecting
SearchEnds(c) ==
  /\ calls[c].op = "runSearch"
  /\ calls' = Remove(calls, c)

\* C24 as stated: a runSearch that was started ends by returning, after exactly
\* maxGenerations iterations: it has invoked runGeneration exactly
\* maxGenerations times, the generation counter has grown by exactly
\* maxGenerations and the archive by at most maxGenerations designs.
SearchUsesItsBudget ==
  [][\A c \in 1..Len(calls) :
       SearchEnds(c) =>
         /\ returned'.op = "runSearch" /\ ~returned'.threw
         /\ calls[c].invoked = config.maxGenerations
         /\ generation' = calls[c].begin.generation + config.maxGenerations
         /\ Len(archive') <= Len(calls[c].begin.archive) + config.maxGenerations]_vars

\* C25: within one runSearch at most one generation is in flight: when the
\* prompt of an iteration has been built, runGeneration has been invoked once
\* more than iterations were completed, every design this invocation stored
\* has had its evaluation result applied, and the prompt renders the archive
\* with those updates.
OneGenerationInFlight ==
  \A c \in 1..Len(calls) :
    calls[c].op = "runSearch" =>
      /\ calls[c].invoked = calls[c].iter + 1
      /\ calls[c].pc = "completeJson" =>
           /\ Len(archive) = calls[c].base + Len(calls[c].rounds)
           /\ calls[c].evaluates = Len(calls[c].rounds)
           /\ calls[c].prompt = buildArchivePrompt(archive)

\* the prompt of the second iteration shows the design of the first with the
\* mean its evaluation gave it
OneGenerationInFlightWitness ==
  \E c \in 1..Len(calls) :
    /\ calls[c].op = "runSearch" /\ calls[c].pc = "completeJson"
    /\ calls[c].iter = 1 /\ Len(calls[c].rounds) = 1
    /\ archive[calls[c].rounds[1].agent].fitness.evaluationCount = 1
    /\ \E k \in 1..Len(calls[c].prompt) :
         /\ calls[c].prompt[k].name = archive[calls[c].rounds[1].agent].name
         /\ calls[c].prompt[k].fitness = 70

\* C26: the generation counter is 0 when the engine is constructed, whatever
\* the persisted archive holds; every runGeneration call raises it by exactly
\* 1 and nothing else changes it; a design is stored under the counter's value,
\* so the first design stored after a restart is tagged 1 even when the archive
\* holds a design tagged 1 from an earlier lifetime.
CounterPerLifetime ==
  /\ []((returned.op = "new" /\ calls = << >>) => generation = 0)
  /\ [][IF Len(calls') > Len(calls) THEN generation' = generation + 1
        ELSE IF returned'.op = "new" /\ started' # started THEN generation' = 0
        ELSE generation' = generation]_vars
  /\ [][(returned'.op # "new" /\ Len(archive') > Len(archive)) =>
          Last(archive').generation = generation]_vars

\* the engine stored its generation 1 in an archive that held a design tagged 1
\* when the engine was constructed
CounterPerLifetimeWitness ==
  /\ opened.kind = "agents" /\ generation = 1
  /\ returned.op = "runGeneration" /\ returned.agent > 0
  /\ archive[returned.agent].generation = 1
  /\ \E k \in 1..(returned.agent - 1) : archive[k].generation = 1

\* C27: the prompt built for a generation renders exactly the designs of
\* getTopPerforming(5) at that moment, in that order: at most five, all of them
\* enabled, never a disabled one.
PromptIsTopFive ==
  \A c \in 1..Len(calls) :
    calls[c].pc = "completeJson" =>
      LET prompt == calls[c].prompt
          top == getTopPerforming(calls[c].entry.archive, 5)
      IN  /\ Len(prompt) = Len(top)
          /\ Len(prompt) <= 5
          /\ \A k \in 1..Len(top) :
               /\ top[k].enabled
               /\ prompt[k].name = top[k].name
               /\ prompt[k].fitness = toFixed2(top[k].fitness.accuracy)
               /\ prompt[k].thought = top[k].thought
               /\ prompt[k].code = top[k].code

\* a prompt of five designs built from an archive of more than five designs, one
\* of them disabled
PromptIsTopFiveWitness ==
  \E c \in 1..Len(calls) :
    /\ calls[c].pc = "completeJson"
    /\ Len(calls[c].prompt) = 5
    /\ Len(archive) > 5
    /\ \E k \in Designs : ~archive[k].enabled

\* the fields of a stored design other than fitness and enabled
Identity(a) == << a.id, a.name, a.thought, a.code, a.generation, a.createdAt >>

\* C28: a stored design is mutated only by fitness updates. A step that stores
\* a design (add, runGeneration) changes no field of an existing design; any
\* other step changes at most one design, the one an updateFitness call found
\* under its id, and of that design only fitness and enabled; id, name,
\* rationale, body, generation and creation time of every design stay.
OnlyFitnessUpdatesMutate ==
  [][/\ Len(archive') >= Len(archive)
     /\ \A k \in Designs :
          /\ Identity(archive'[k]) = Identity(archive[k])
          /\ archive'[k] # archive[k] =>
               /\ Len(archive') = Len(archive)
               /\ k = find(archive, archive[k].id)
               /\ obs'[k].applied = obs[k].applied + 1
               /\ \A j \in Designs \ {k} : archive'[j] = archive[j]]_vars

\* two designs under one id, the first updated, the second as it was stored, and
\* a design stored after them
OnlyFitnessUpdatesMutateWitness ==
  \E k, j \in Designs :
    /\ k < j /\ j < Len(archive)
    /\ archive[k].id = archive[j].id
    /\ obs[k].applied > 0
    /\ archive[j].fitness = ZeroFitness /\ archive[j].enabled

\* the designs of value are enabled, in descending order of mean, n of them or
\* all the enabled ones when fewer, and no enabled design left out has a greater
\* mean than one of them
TopEnabled(value, n) ==
  LET enabledCount == Cardinality({k \in Designs : archive[k].enabled})
  IN  /\ Len(value) = IF enabledCount < n THEN enabledCount ELSE n
      /\ \A k \in 1..Len(value) :
           /\ value[k].enabled
           /\ \E j \in Designs : archive[j] = value[k]
           /\ k > 1 => LessEq(value[k].fitness.accuracy, value[k - 1].fitness.accuracy)
           /\ \A j \in Designs :
                (archive[j].enabled /\ Less(value[k].fitness.accuracy,
                                            archive[j].fitness.accuracy)) =>
                  \E i \in 1..Len(value) : value[i] = archive[j]

\* C29: getStatus, getArchive and getTopAgents (the steps that start or resume
\* no call and do not advance the clock) leave the archive's contents and
\* order, the persisted document and the generation counter as they were, and
\* getStatus reports the number of designs, the number of enabled designs, the
\* current counter and the top 3 enabled designs by mean.
StatusReadsOnly ==
  [][(/\ returned'.op \in {"getStatus", "getArchive", "getTopAgents"}
      /\ calls' = calls /\ started' = started /\ now' = now) =>
       /\ archive' = archive /\ disk' = disk /\ generation' = generation
       /\ writes' = writes
       /\ returned'.op = "getStatus" =>
            /\ returned'.value.total = Len(archive)
            /\ returned'.value.enabled = Cardinality({k \in Designs : archive[k].enabled})
            /\ returned'.value.generation = generation
            /\ TopEnabled(returned'.value.top, 3)
       /\ returned'.op = "getArchive" => returned'.value = archive
       /\ returned'.op = "getTopAgents" =>
            TopEnabled(returned'.value, returned'.n)]_vars

\* a status read after a generation, of an archive with a disabled design and
\* more than three enabled ones
StatusReadsOnlyWitness ==
  /\ returned.op = "getStatus"
  /\ returned.value.generation > 0
  /\ returned.value.enabled < returned.value.total
  /\ returned.value.enabled > 3
  /\ Len(returned.value.top) = 3

\* C30: a failure of the persistence write during add or updateFitness is not
\* caught. A step that changes the archive without a completed write leaves the
\* document as it was and ends the operation by a throw: add or updateFitness
\* called directly, or the runGeneration, evaluateAgent or runSearch that was
\* running, which returns no value, so runSearch returns no discovered list.
WriteFailurePropagates ==
  [][(archive' # archive /\ writes' = writes) =>
       /\ disk' = disk
       /\ DOMAIN returned' = {"op", "threw"}
       /\ returned'.threw
       /\ \/ calls' = calls /\ returned'.op \in {"add", "updateFitness"}
          \/ \E c \in 1..Len(calls) :
               /\ calls' = Remove(calls, c)
               /\ returned'.op = calls[c].op]_vars

\* a search whose first round discovered a design and whose second round ended
\* in a failed write: the call threw, the archive is ahead of the document
WriteFailurePropagatesWitness ==
  /\ returned = Threw("runSearch")
  /\ calls = << >>
  /\ disk.kind = "agents" /\ parseAgents(disk) # archive
  /\ \E k \in Designs :
       /\ archive[k].generation = 1
       /\ obs[k].applied = 1
       /\ LessEq(config.minFitnessThreshold, archive[k].fitness.accuracy)
  /\ Last(archive).generation = 2

Ids(arch) == {arch[k].id : k \in 1..Len(arch)}

\* C31: two instances on one storage location each write their own full
\* in-memory copy, so an update can be lost: after an add or updateFitness that
\* wrote, the document is the writer's archive, and a design the other instance
\* added, or a fitness update it made, is absent from the document.
SecondWriterOverwrites ==
  [][writes' = writes + 1 =>
       /\ returned'.op \in {"peer.add", "peer.updateFitness"} =>
            /\ parseAgents(disk') = peer'
            /\ \A k \in Designs :
                 archive[k].id \notin Ids(peer') => archive[k].id \notin Ids(parseAgents(disk'))
       /\ returned'.op \in {"add", "updateFitness"} =>
            /\ parseAgents(disk') = archive'
            /\ \A k \in 1..Len(peer) :
                 peer[k].id \notin Ids(archive') => peer[k].id \notin Ids(parseAgents(disk'))]_vars

\* the first instance added a design and updated a fitness, both were written,
\* and after the second instance's add the document holds neither
SecondWriterOverwritesWitness ==
  /\ returned.op = "peer.add"
  /\ writes >= 4
  /\ \E k \in Designs : archive[k].id \notin Ids(parseAgents(disk))
  /\ archive[1].fitness.evaluationCount = 1
  /\ parseAgents(disk)[1].fitness.evaluationCount = 0

\* C32: evaluateAgent on an id present in the archive, enabled or not, calls
\* the evaluator once with that design's body, applies exactly one
\* updateFitness with the returned accuracy whatever the success flag is, and
\* returns the evaluator's result unchanged.
EvaluatesOnceAndApplies ==
  [][\A c \in 1..Len(calls) :
       (/\ calls[c].op = "evaluateAgent" /\ calls[c].pc = "evaluate"
        /\ calls' = Remove(calls, c)
        /\ returned'.op = "evaluateAgent" /\ ~returned'.threw) =>
         LET k == find(archive, calls[c].agentId)
         IN  /\ k # 0
             /\ calls[c].evaluates = 1
             /\ calls[c].code = archive[k].code
             /\ returned'.value \in AnyResults
             /\ \A result \in AnyResults :
                  EvaluateReturns(c, result) => returned'.value = result
             /\ evals' = evals + 1
             /\ obs'[k].applied = obs[k].applied + 1
             /\ obs'[k].sum = Plus(obs[k].sum, returned'.value.accuracy)
             /\ archive'[k].fitness.evaluationCount = archive[k].fitness.evaluationCount + 1
             /\ archive'[k].fitness.accuracy =
                  runningAverage(archive[k].fitness.accuracy,
                                 archive[k].fitness.evaluationCount,
                                 returned'.value.accuracy)
             /\ writes' = writes + 1]_vars

\* evaluateAgent returned a result with success = false for a disabled design,
\* and the observation was counted
EvaluatesOnceAndAppliesWitness ==
  /\ returned.op = "evaluateAgent" /\ ~returned.threw
  /\ ~returned.value.success /\ returned.value.duration = 1
  /\ ~archive[1].enabled
  /\ obs[1].applied = 1
  /\ archive[1].fitness.evaluationCount = obs[1].init + 1

\* the critique prompt of the round at position j (1-based)
PromptOfRound(j) == IF j = 1 THEN "REFLEXION_PROMPT_1" ELSE "REFLEXION_PROMPT_2"

\* C33: after a successful initial proposal runGeneration attempts exactly
\* reflexionSteps refinement calls, in order, each submitting the design current
\* at that point; the first round uses the first critique prompt and every later
\* round the second, by round position whatever earlier rounds did; with
\* reflexionSteps = 0 the initial proposal is stored unrefined.
RefinementRounds ==
  /\ [](\A c \in 1..Len(calls) :
          calls[c].pc = "reflexion" =>
            /\ calls[c].i < config.reflexionSteps
            /\ Len(calls[c].asked) = calls[c].i + 2
            /\ Len(calls[c].answers) = calls[c].i + 1
            /\ \A j \in 1..(calls[c].i + 1) :
                 /\ calls[c].asked[j + 1].prompt = PromptOfRound(j)
                 /\ calls[c].asked[j + 1].design =
                      LastAnswered(SubSeq(calls[c].answers, 1, j)))
  /\ [][\A c \in 1..Len(calls) :
          (calls[c].pc \in {"completeJson", "reflexion"}
             /\ Len(archive') = Len(archive) + 1) =>
            /\ Len(calls[c].asked) = 1 + config.reflexionSteps
            /\ config.reflexionSteps = 0 =>
                 /\ calls[c].pc = "completeJson"
                 /\ \E design \in OracleDesigns :
                      /\ CompleteJsonReturns(c, design)
                      /\ Last(archive').name = design.name
                      /\ Last(archive').thought = design.thought
                      /\ Last(archive').code = design.code
            /\ config.reflexionSteps > 0 =>
                 /\ calls[c].pc = "reflexion"
                 /\ calls[c].i + 1 = config.reflexionSteps]_vars

\* a second round was asked with the second critique prompt and the initial
\* proposal, after the first round had failed
RefinementRoundsWitness ==
  \E c \in 1..Len(calls) :
    /\ calls[c].pc = "reflexion" /\ calls[c].i = 1
    /\ ~calls[c].answers[2].ok
    /\ calls[c].asked[3].prompt = "REFLEXION_PROMPT_2"
    /\ calls[c].asked[3].design = calls[c].answers[1].design

\* the designs the engine stored: those named by the oracle
EngineStored == {k \in Designs : \E d \in OracleDesigns : archive[k].name = d.name}

\* a runGeneration invocation begins in this step: a call starts on one, or a
\* suspended search enters its next one
Invokes ==
  \/ Len(calls') > Len(calls)
      /\ calls'[Len(calls')].pc = "completeJson"
  \/ \E c \in 1..Len(calls) :
       c <= Len(calls') /\ calls'[c].invoked = calls[c].invoked + 1

\* C34: runGeneration increments the counter before it calls the oracle, and a
\* failed generation keeps its number; a design stored by a runGeneration that
\* overlaps no other is tagged with the counter that invocation produced; so
\* the tags of the designs one engine stored increase strictly in insertion
\* order, with gaps after failed generations.
CounterBeforeOracle ==
  /\ [][generation' = IF Invokes THEN generation + 1 ELSE generation]_vars
  /\ [][\A c \in 1..Len(calls) :
          (calls[c].pc \in {"completeJson", "reflexion"}
             /\ Len(archive') = Len(archive) + 1) =>
            Last(archive').generation = generation]_vars
  /\ [](\A c \in 1..Len(calls) :
          calls[c].pc \in {"completeJson", "reflexion"} =>
            /\ generation >= 1
            /\ \A k \in EngineStored : archive[k].generation < generation)
  /\ [](\A j, k \in EngineStored :
          j < k => archive[j].generation < archive[k].generation)

\* two designs stored by the engine whose tags differ by two: the generation
\* between them failed
CounterBeforeOracleWitness ==
  \E j, k \in EngineStored :
    /\ j < k
    /\ archive[k].generation = archive[j].generation + 2
    /\ generation = archive[k].generation

\* C35: from a freshly seeded archive, through runGeneration, evaluateAgent,
\* runSearch and updateFitness, every design with evaluation count >= 5 and
\* mean < 0.3 is disabled and every disabled design has count >= 5; an update
\* that yields count 4, or a mean of exactly 0.3, disables no enabled design.
RetirementInvariant ==
  /\ [](\A k \in Designs :
          /\ (archive[k].fitness.evaluationCount >= 5
                /\ Less(archive[k].fitness.accuracy, Num(3, 10))) => ~archive[k].enabled
          /\ ~archive[k].enabled => archive[k].fitness.evaluationCount >= 5)
  /\ [][\A k \in Designs :
          (archive[k].enabled /\ ~archive'[k].enabled) =>
            /\ archive'[k].fitness.evaluationCount >= 5
            /\ Less(archive'[k].fitness.accuracy, Num(3, 10))]_vars

\* evaluateAgent brought the first seed to six evaluations and a mean of exactly
\* 0.3, and it is enabled
RetirementInvariantWitness ==
  /\ returned.op = "evaluateAgent"
  /\ archive[1].fitness.evaluationCount = 6
  /\ archive[1].fitness.accuracy = Num(3, 10)
  /\ archive[1].enabled
  /\ obs[1].applied = 6

\* C38: when runGeneration invocations overlap, each stored design is tagged
\* with the generation index its own invocation obtained when it incremented the
\* counter, so the designs carry different generation tags and different ids.
OverlappingTagsDiffer ==
  /\ [][\A c \in 1..Len(calls) :
          (/\ calls[c].pc \in {"completeJson", "reflexion"}
           /\ Len(archive') = Len(archive) + 1
           /\ \/ calls' = Remove(calls, c)
              \/ Len(calls') = Len(calls) /\ calls'[c] # calls[c]) =>
            Last(archive').generation = calls[c].entry.generation]_vars
  /\ [](\A j, k \in EngineStored :
          j # k => /\ archive[j].generation # archive[k].generation
                   /\ archive[j].id # archive[k].id)

\* C36: using runSearch alone on a freshly seeded archive, every generated
\* design has evaluation count at most 1 and every seed has count 0, so no
\* design is ever retired and getEnabled() equals getAll().
SearchAloneEvaluatesOnce ==
  /\ \A k \in Designs :
       archive[k].fitness.evaluationCount <= (IF k <= Len(INITIAL_ARCHIVE) THEN 0 ELSE 1)
  /\ getEnabled(archive) = getAll(archive)

\* C37: a retired design keeps accumulating evidence: an evaluateAgent or
\* updateFitness applied to a disabled design increments its count, recomputes
\* its mean and bounds and persists, while the design stays disabled and out of
\* getEnabled, getTopPerforming and the prompt.
RetiredStillAccumulates ==
  [][\A k \in Designs :
       (~archive[k].enabled /\ obs'[k].applied = obs[k].applied + 1) =>
         LET observed == Minus(obs'[k].sum, obs[k].sum)
             newCount == archive[k].fitness.evaluationCount + 1
             acc == runningAverage(archive[k].fitness.accuracy,
                                   archive[k].fitness.evaluationCount, observed)
         IN  /\ archive'[k].fitness.evaluationCount = newCount
             /\ archive'[k].fitness.accuracy = acc
             /\ archive'[k].fitness.confidenceLow = confidenceLow(acc, newCount)
             /\ archive'[k].fitness.confidenceHigh = confidenceHigh(acc, newCount)
             /\ ~archive'[k].enabled
             /\ writes' = writes + 1
             /\ parseAgents(disk')[k] = archive'[k]
             /\ \A j \in 1..Len(getEnabled(archive')) :
                  getEnabled(archive')[j] # archive'[k]
             /\ \A j \in 1..Len(getTopPerforming(archive', Len(archive'))) :
                  getTopPerforming(archive', Len(archive'))[j] # archive'[k]
             /\ \A j \in 1..Len(buildArchivePrompt(archive')) :
                  buildArchivePrompt(archive')[j].code # archive'[k].code]_vars

\* evaluateAgent on the retired seed brought its mean back to 0.3 or more, and
\* it is still disabled
RetiredStillAccumulatesWitness ==
  /\ returned.op = "evaluateAgent" /\ ~returned.threw
  /\ ~archive[1].enabled
  /\ obs[1].applied >= 1
  /\ archive[1].fitness.evaluationCount = obs[1].init + obs[1].applied
  /\ LessEq(Num(3, 10), archive[1].fitness.accuracy)

\* the fitness design k had when the archive was constructed
FirstFitness(k) == load(opened, 0).archive[k].fitness

\* C39: when evaluateAgent calls on the same design overlap no update is lost:
\* each returning call raises the count by one, and the count is the initial
\* count plus the number of calls that returned, the mean the running average
\* over all their accuracies, whatever the order in which the evaluator returns.
NoLostUpdate ==
  /\ [](\A k \in Designs :
          /\ archive[k].fitness.evaluationCount = obs[k].init + obs[k].applied
          /\ obs[k].applied > 0 =>
               archive[k].fitness.accuracy =
                 Over(Plus(Times(FirstFitness(k).accuracy, Int2Num(obs[k].init)),
                           obs[k].sum),
                      Int2Num(obs[k].init + obs[k].applied)))
  /\ [][\A c \in 1..Len(calls) :
          (/\ calls[c].pc = "evaluate"
           /\ calls' = Remove(calls, c)
           /\ returned'.op = "evaluateAgent" /\ ~returned'.threw) =>
            LET k == find(archive, calls[c].agentId)
            IN  /\ obs'[k].applied = obs[k].applied + 1
                /\ archive'[k].fitness.evaluationCount =
                     archive[k].fitness.evaluationCount + 1]_vars

\* all calls returned, two of them on the first seed with different accuracies,
\* and the one that returned last had been called before the other returned
NoLostUpdateWitness ==
  /\ calls = << >>
  /\ returned.op = "evaluateAgent" /\ ~returned.threw
  /\ obs[1].applied = 2
  /\ obs[1].sum = Num(8, 10)
  /\ returned.begin.archive # << >>
  /\ returned.begin.archive[1].fitness.evaluationCount = obs[1].init

\* the returned record is a throw of op
Thrown(r, op) == "threw" \in DOMAIN r /\ r.op = op /\ r.threw

\* C40: when the persistence write fails during add or updateFitness the
\* in-memory change has been applied and is not rolled back: after the error the
\* archive holds the new design, or the updated fitness, and the persisted
\* document still holds the previous state.
FailedWriteKeepsChange ==
  /\ [][(calls' = calls /\ started' = started + 1 /\ Thrown(returned', "add")) =>
          /\ Len(archive') = Len(archive) + 1
          /\ SubSeq(archive', 1, Len(archive)) = archive
          /\ Last(archive').enabled
          /\ disk' = disk
          /\ Len(parseAgents(disk')) < Len(archive')]_vars
  /\ [][(calls' = calls /\ started' = started + 1
           /\ Thrown(returned', "updateFitness")) =>
          /\ \E k \in Designs :
               /\ archive'[k].fitness.evaluationCount =
                    archive[k].fitness.evaluationCount + 1
               /\ obs'[k].applied = obs[k].applied + 1
               /\ archive' = [archive EXCEPT ![k] = archive'[k]]
          /\ disk' = disk
          /\ parseAgents(disk') # archive']_vars
  /\ [][\A c \in 1..Len(calls) :
          (/\ calls[c].pc \in {"completeJson", "reflexion"}
           /\ calls' = Remove(calls, c)
           /\ Thrown(returned', calls[c].op)) =>
            /\ Len(archive') = Len(archive) + 1
            /\ SubSeq(archive', 1, Len(archive)) = archive
            /\ Last(archive').generation = generation
            /\ disk' = disk
            /\ Len(parseAgents(disk')) < Len(archive')]_vars

\* an updateFitness and then an add failed to write: the archive holds the
\* updated fitness and the new design, the document neither
FailedWriteKeepsChangeWitness ==
  /\ Thrown(returned, "add")
  /\ disk.kind = "agents"
  /\ Len(archive) = Len(parseAgents(disk)) + 1
  /\ archive[1].fitness.evaluationCount =
       parseAgents(disk)[1].fitness.evaluationCount + 1

====
